---- MODULE Spec2Model ----
(***************************************************************************)
(* Verification model of the multi-threaded finite-state-machine runtime:  *)
(* the event queue (evtq.c), the worker registry and its broadcast         *)
(* (workers.h), the FSM interpreter (fsm.c, fsm.h, fsm_defs.h) and the     *)
(* timer service (timer.c).                                                *)
(***************************************************************************)
EXTENDS Integers, Sequences, FiniteSets, Bags, TLC

(***************************************************************************)
(* Event identifiers, enum evt_id of evtq.h.                               *)
(***************************************************************************)
E_BAD    == 0
E_LIGHT  == 1
E_BLINK  == 2
E_INIT   == 3
E_RED    == 4
E_GREEN  == 5
E_YELLOW == 6
E_BUTTON == 7
E_DONE   == 8
E_TIMER  == 9
E_LAST   == 10

(***************************************************************************)
(* Threads.  The two FSM workers own one queue each; the main thread runs  *)
(* the command line producer; the timer service has a thread of its own.   *)
(***************************************************************************)
NoThread  == "none"
WorkerIds == {"stoplight", "crosswalk"}
Threads   == {"main", "timer"} \cup WorkerIds

\* The registry after start-up: workers in worker_list_add order.
WorkerList == <<"stoplight", "crosswalk">>

\* Bound: number of workers_evt_broadcast calls issued in one run.
MaxBcast == 2

\* Bound: number of fsm_run calls in one run.
MaxRuns == 3

VARIABLES
    workers,    \* workers.head list: the registered workers, in insertion order
    q_list,     \* evtq_t.head list of each worker's queue: sequence of nodes
    q_len,      \* evtq_t.len
    q_mutex,    \* evtq_t.mutex: the owning thread, or NoThread
    q_cond,     \* evtq_t.cond: the threads blocked in pthread_cond_wait
    pc,         \* position of every thread
    evt_id,     \* workers_evt_broadcast/evtq_push: the event being enqueued
    w_idx,      \* workers_evt_broadcast: w_p, as an index into the registry
    ret_pc,     \* where a thread continues when workers_evt_broadcast returns
    id_p,       \* evtq_pop: *id_p, the event handed to the consumer
    ncalls,     \* number of broadcasts issued so far (bounded by MaxBcast)
    nsent,      \* per thread: number of broadcasts it has issued
    appended,   \* history: per queue, the nodes in the order they were linked
    dequeued,   \* history: per queue, the nodes in the order they were popped
    issued,     \* history: the nodes' worth of every broadcast issued so far
    finished,   \* history: the broadcasts that have returned
    hb,         \* history: pairs <<a, b>>: broadcast a returned before b began
    fsm,        \* per worker: its transition table (fsm_trans_t[]); the
                \* current state is the currst_p of the first row
    nextst_p,   \* fsm_run: the local nextst_p
    ret,        \* fsm_run: the local ret
    timers,     \* timer_list: per timer id, the fsmtimer_t and its kernel timer
    proc,       \* the process: "running", "aborted" (die) or "fault"
    nruns,      \* number of fsm_run calls so far (bounded by MaxRuns)
    run_evt,    \* fsm_run: the argument evt_id
    h_from,     \* history: the current state when fsm_run was called
    h_row,      \* history: the row at which the scan of next_state ended
    h_guard,    \* history: what the guard of that row returns
    h_log,      \* history: the steps of the call, in order
    svc,        \* timer_service_fn: its locals nfds/events[], i, timer_p, res
    ntcalls,    \* number of timer API calls so far (bounded by MaxTimerCalls)
    nexp,       \* number of timer expiries so far (bounded by MaxExpire)
    h_call,     \* history: the last two timer API calls, the latest first
    h_quiet,    \* history: per timer id, set(id, 0) returned and the timer
                \* was not armed since
    h_svc,      \* history: the number of reported descriptors the service
                \* took up, the counters it read and its broadcasts
    t_mutex,    \* timer_list.mutex: the owning thread, or NoThread
    arm,        \* set_timer/toggle_timer in steps: per thread, the arguments
                \* timerid and tick_ms and the local timer_p
    nhandled,   \* the worker's task: per worker, the number of events it
                \* has given to fsm_run
    w_p,        \* the worker_t of each worker: how far worker_fsm_create has
                \* come, and the field fsm_p
    h_seen,     \* history: per worker, the fsm_p its thread found in its
                \* worker_t when it began
    d_pc,       \* evtdemo: position of the main, consumer and timer threads
    d_q,        \* evtdemo: the events in the queues evtq_pp[0], evtq_pp[1]
    d_cmd,      \* evtdemo: evt_ondemand's c, the command being carried out
    d_exp,      \* evtdemo: expirations of the timerfd that were not read
    d_nexp,     \* evtdemo: number of expiries (bounded by MaxDemoExpire)
    d_nprod,    \* evtdemo: number of commands (bounded by MaxDemoCmds)
    h_done,     \* evtdemo history: EVT_DONE was pushed to both queues
    t_list,     \* timer_list.head.list as create_timer in steps links it:
                \* the timerid of every fsmtimer_t, in order
    h_self      \* history: per worker, what worker_self() returned when
                \* its thread called it

qvars == <<q_list, q_len, q_mutex, q_cond>>
hvars == <<appended, dequeued, issued, finished, hb>>
fvars == <<fsm, nextst_p, ret, timers, proc, nruns,
           run_evt, h_from, h_row, h_guard, h_log>>
dvars == <<d_pc, d_q, d_cmd, d_exp, d_nexp, d_nprod, h_done>>
rvars == <<t_list, h_self>>
lvars == <<t_mutex, arm, nhandled, w_p, h_seen, dvars, rvars>>
tvars == <<svc, ntcalls, nexp, h_call, h_quiet, h_svc, lvars>>
vars  == <<workers, q_list, q_len, q_mutex, q_cond, pc, evt_id, w_idx, ret_pc,
           id_p, ncalls, nsent, appended, dequeued, issued, finished, hb,
           fsm, nextst_p, ret, timers, proc, nruns,
           run_evt, h_from, h_row, h_guard, h_log,
           svc, ntcalls, nexp, h_call, h_quiet, h_svc, t_mutex, arm,
           nhandled, w_p, h_seen,
           d_pc, d_q, d_cmd, d_exp, d_nexp, d_nprod, h_done, t_list, h_self>>

(***************************************************************************)
(* Helpers.                                                                *)
(***************************************************************************)
Range(s) == {s[i] : i \in DOMAIN s}

\* A queue node: struct fsm_event.  tag identifies the allocation (which
\* broadcast of which thread malloc'ed it); the program reads only event_id.
Node(e, t, k) == [event_id |-> e, tag |-> <<t, k>>]

\* The events each thread broadcasts: the command line producer (cli.c), the
\* timer service (the events of the two timers), the stoplight entry actions.
EventsOf(t) ==
    CASE t = "main"      -> {E_INIT, E_DONE}
      [] t = "timer"     -> {E_LIGHT}
      [] t = "stoplight" -> {E_GREEN}
      [] OTHER           -> {}

\* evtq_create: an empty queue.
evtq_create == [list |-> <<>>, len |-> 0, mutex |-> NoThread, cond |-> {}]

\* The queue a broadcasting thread is at: w_p->evtq_p.
QueueOf(t) == workers[w_idx[t]]

(***************************************************************************)
(* workers_evt_broadcast (workers.h) and evtq_push (evtq.c).               *)
(***************************************************************************)

\* Entry of workers_evt_broadcast(e) on thread t, returning to label r.
workers_evt_broadcast(t, e, r) ==
    /\ evt_id' = [evt_id EXCEPT ![t] = e]
    /\ w_idx' = [w_idx EXCEPT ![t] = 1]
    /\ ret_pc' = [ret_pc EXCEPT ![t] = r]
    /\ pc' = [pc EXCEPT ![t] = IF Len(workers) = 0 THEN r ELSE "push_lock"]
    /\ nsent' = [nsent EXCEPT ![t] = @ + 1]
    /\ issued' = issued \cup {Node(e, t, nsent[t] + 1)}
    /\ hb' = hb \cup {<<a, <<t, nsent[t] + 1>>>> : a \in finished}
    /\ finished' = IF Len(workers) = 0
                      THEN finished \cup {<<t, nsent[t] + 1>>}
                      ELSE finished

\* Mutant of workers_evt_broadcast_next: the loop leaves after the first
\* worker of the registry.
workers_evt_broadcast_first_only(t) ==
    /\ w_idx' = w_idx
    /\ pc' = [pc EXCEPT ![t] = ret_pc[t]]
    /\ finished' = finished \cup {<<t, nsent[t]>>}

\* nl_list_for_each_entry: the next worker of the registry, or the return.
workers_evt_broadcast_next(t) ==
    IF w_idx[t] < Len(workers)
       THEN /\ w_idx' = [w_idx EXCEPT ![t] = @ + 1]
            /\ pc' = [pc EXCEPT ![t] = "push_lock"]
            /\ finished' = finished
       ELSE /\ w_idx' = w_idx
            /\ pc' = [pc EXCEPT ![t] = ret_pc[t]]
            /\ finished' = finished \cup {<<t, nsent[t]>>}

\* pthread_mutex_lock(&evtq_p->mutex)
evtq_push_lock(t) ==
    /\ pc[t] = "push_lock"
    /\ proc = "running"
    /\ q_mutex[QueueOf(t)] = NoThread
    /\ q_mutex' = [q_mutex EXCEPT ![QueueOf(t)] = t]
    /\ pc' = [pc EXCEPT ![t] = "push_append"]
    /\ UNCHANGED <<tvars, workers, q_list, q_len, q_cond, evt_id, w_idx, ret_pc, id_p,
                   ncalls, nsent, hvars, fvars>>

\* Mutant of list_add_tail: nl_list_add, which links the node at the head.
list_add_head(list, node) == <<node>> \o list

\* nl_list_add_tail(&ep->list, &evtq_p->head.list)
list_add_tail(list, node) == Append(list, node)

\* Mutant of evtq_push_append: the node is linked and len is not counted up.
evtq_push_append_nolen(t) ==
    /\ pc[t] = "push_append"
    /\ proc = "running"
    /\ LET q == QueueOf(t)
           ep == Node(evt_id[t], t, nsent[t])
       IN /\ q_list' = [q_list EXCEPT ![q] = list_add_tail(@, ep)]
          /\ appended' = [appended EXCEPT ![q] = Append(@, ep)]
    /\ pc' = [pc EXCEPT ![t] = "push_signal"]
    /\ UNCHANGED <<tvars, workers, q_len, q_mutex, q_cond, evt_id, w_idx, ret_pc,
                   id_p, ncalls, nsent, dequeued, issued, finished, hb, fvars>>

\* malloc, ep->event_id = id, nl_list_add_tail, evtq_p->len++
evtq_push_append(t) ==
    /\ pc[t] = "push_append"
    /\ proc = "running"
    /\ LET q == QueueOf(t)
           ep == Node(evt_id[t], t, nsent[t])
       IN /\ q_list' = [q_list EXCEPT ![q] = list_add_tail(@, ep)]
          /\ q_len' = [q_len EXCEPT ![q] = @ + 1]
          /\ appended' = [appended EXCEPT ![q] = Append(@, ep)]
    /\ pc' = [pc EXCEPT ![t] = "push_signal"]
    /\ UNCHANGED <<tvars, workers, q_mutex, q_cond, evt_id, w_idx, ret_pc, id_p,
                   ncalls, nsent, dequeued, issued, finished, hb, fvars>>

\* Mutant of evtq_push_signal: the signal is left out.
evtq_push_nosignal(t) ==
    /\ pc[t] = "push_signal"
    /\ proc = "running"
    /\ pc' = [pc EXCEPT ![t] = "push_unlock"]
    /\ UNCHANGED <<tvars, workers, q_list, q_len, q_mutex, q_cond, evt_id, w_idx, ret_pc,
                   id_p, ncalls, nsent, hvars, fvars>>

\* pthread_cond_signal(&evtq_p->cond): wakes one waiter if there is one,
\* and is discarded otherwise.
evtq_push_signal(t) ==
    /\ pc[t] = "push_signal"
    /\ proc = "running"
    /\ LET q == QueueOf(t)
       IN IF q_cond[q] = {}
             THEN /\ q_cond' = q_cond
                  /\ pc' = [pc EXCEPT ![t] = "push_unlock"]
             ELSE \E u \in q_cond[q] :
                  /\ q_cond' = [q_cond EXCEPT ![q] = @ \ {u}]
                  /\ pc' = [pc EXCEPT ![t] = "push_unlock", ![u] = "pop_wake"]
    /\ UNCHANGED <<tvars, workers, q_list, q_len, q_mutex, evt_id, w_idx, ret_pc, id_p,
                   ncalls, nsent, appended, dequeued, issued, finished, hb, fvars>>

\* pthread_mutex_unlock(&evtq_p->mutex), relax(), and the loop of the caller.
evtq_push_unlock(t) ==
    /\ pc[t] = "push_unlock"
    /\ proc = "running"
    /\ q_mutex' = [q_mutex EXCEPT ![QueueOf(t)] = NoThread]
    /\ workers_evt_broadcast_next(t)
    /\ UNCHANGED <<tvars, workers, q_list, q_len, q_cond, evt_id, ret_pc, id_p,
                   ncalls, nsent, appended, dequeued, issued, hb, fvars>>

(***************************************************************************)
(* evtq_pop (evtq.c), run by the worker that owns the queue.               *)
(***************************************************************************)

\* pthread_mutex_lock(&evtq_p->mutex)
evtq_pop_lock(w) ==
    /\ pc[w] = "pop_lock"
    /\ proc = "running"
    /\ q_mutex[w] = NoThread
    /\ q_mutex' = [q_mutex EXCEPT ![w] = w]
    /\ pc' = [pc EXCEPT ![w] = "pop_check"]
    /\ UNCHANGED <<tvars, workers, q_list, q_len, q_cond, evt_id, w_idx, ret_pc, id_p,
                   ncalls, nsent, hvars, fvars>>

\* while (0 == evtq_p->len) pthread_cond_wait(...): the test, and the wait,
\* which releases the mutex and blocks in one atomic step.
evtq_pop_check(w) ==
    /\ pc[w] = "pop_check"
    /\ proc = "running"
    /\ IF q_len[w] = 0
          THEN /\ q_mutex' = [q_mutex EXCEPT ![w] = NoThread]
               /\ q_cond' = [q_cond EXCEPT ![w] = @ \cup {w}]
               /\ pc' = [pc EXCEPT ![w] = "pop_wait"]
          ELSE /\ pc' = [pc EXCEPT ![w] = "pop_remove"]
               /\ UNCHANGED <<q_mutex, q_cond>>
    /\ UNCHANGED <<tvars, workers, q_list, q_len, evt_id, w_idx, ret_pc, id_p,
                   ncalls, nsent, hvars, fvars>>

\* A spurious wakeup of pthread_cond_wait, which POSIX allows.
spurious_wakeup(w) ==
    /\ pc[w] = "pop_wait"
    /\ proc = "running"
    /\ w \in q_cond[w]
    /\ q_cond' = [q_cond EXCEPT ![w] = @ \ {w}]
    /\ pc' = [pc EXCEPT ![w] = "pop_wake"]
    /\ UNCHANGED <<tvars, workers, q_list, q_len, q_mutex, evt_id, w_idx, ret_pc, id_p,
                   ncalls, nsent, appended, dequeued, issued, finished, hb, fvars>>

\* Mutant of evtq_pop_relock: an if in place of the while, so that the
\* length is not tested again after the wait.
evtq_pop_relock_if(w) ==
    /\ pc[w] = "pop_wake"
    /\ proc = "running"
    /\ q_mutex[w] = NoThread
    /\ q_mutex' = [q_mutex EXCEPT ![w] = w]
    /\ pc' = [pc EXCEPT ![w] = "pop_remove"]
    /\ UNCHANGED <<tvars, workers, q_list, q_len, q_cond, evt_id, w_idx, ret_pc, id_p,
                   ncalls, nsent, hvars, fvars>>

\* pthread_cond_wait returns with the mutex re-acquired; the while loop
\* tests the length again.
evtq_pop_relock(w) ==
    /\ pc[w] = "pop_wake"
    /\ proc = "running"
    /\ q_mutex[w] = NoThread
    /\ q_mutex' = [q_mutex EXCEPT ![w] = w]
    /\ pc' = [pc EXCEPT ![w] = "pop_check"]
    /\ UNCHANGED <<tvars, workers, q_list, q_len, q_cond, evt_id, w_idx, ret_pc, id_p,
                   ncalls, nsent, hvars, fvars>>

\* Mutant of list_first_entry: nl_list_last_entry.
list_last_entry(list) == list[Len(list)]

\* nl_list_first_entry(&evtq_p->head.list, ...)
list_first_entry(list) == Head(list)

\* Mutant of list_del: the node is read but never unlinked.
list_del_nothing(list, ep) == list

\* nl_list_del(&ep->list): unlinks node ep (its first occurrence in the
\* sequence that stands for the list).
list_del(list, ep) ==
    LET i == CHOOSE j \in DOMAIN list :
                 list[j] = ep /\ \A k \in 1..(j - 1) : list[k] # ep
    IN SubSeq(list, 1, i - 1) \o SubSeq(list, i + 1, Len(list))

\* ep = first entry, nl_list_del, evtq_p->len--, *id_p = ep->event_id, free.
\* On an empty list the first entry is the list head itself: no node is
\* unlinked and the event id read is not one that was enqueued.
evtq_pop_remove(w) ==
    /\ pc[w] = "pop_remove"
    /\ proc = "running"
    /\ IF q_list[w] = <<>>
          THEN /\ q_list' = q_list
               /\ id_p' = [id_p EXCEPT ![w] = E_BAD]
               /\ dequeued' = [dequeued EXCEPT
                                 ![w] = Append(@, Node(E_BAD, NoThread, 0))]
          ELSE /\ q_list' = [q_list EXCEPT
                             ![w] = list_del(@, list_first_entry(q_list[w]))]
               /\ id_p' = [id_p EXCEPT ![w] = list_first_entry(q_list[w]).event_id]
               /\ dequeued' = [dequeued EXCEPT
                                 ![w] = Append(@, list_first_entry(q_list[w]))]
    /\ q_len' = [q_len EXCEPT ![w] = @ - 1]
    /\ pc' = [pc EXCEPT ![w] = "pop_unlock"]
    /\ UNCHANGED <<tvars, workers, q_mutex, q_cond, evt_id, w_idx, ret_pc,
                   ncalls, nsent, appended, issued, finished, hb, fvars>>

\* pthread_mutex_unlock(&evtq_p->mutex); evtq_pop returns.
evtq_pop_unlock(w) ==
    /\ pc[w] = "pop_unlock"
    /\ proc = "running"
    /\ q_mutex' = [q_mutex EXCEPT ![w] = NoThread]
    /\ pc' = [pc EXCEPT ![w] = "idle"]
    /\ UNCHANGED <<tvars, workers, q_list, q_len, q_cond, evt_id, w_idx, ret_pc, id_p,
                   ncalls, nsent, hvars, fvars>>

(***************************************************************************)
(* The FSM definitions (fsm_defs.h).  A pointer to a state is the name of  *)
(* the state object; NULL is the null pointer.                             *)
(***************************************************************************)
NULL == "NULL"

\* enum timer_ids
TID_LIGHT == 0
TID_BLINK == 1
TimerIds == {TID_LIGHT, TID_BLINK}

\* The timer periods.  Time is counted in units of `tick` milliseconds, the
\* unit stoplight_init_enter scales the four periods to.
t_norm  == 10
t_fast  == 3
t_but   == 1
t_blink == 8

fsm_state_t(n, en, ex) == [name |-> n, entry_action |-> en, exit_action |-> ex]

s_init           == fsm_state_t("S:INIT", "act_enter", "act_exit")
s_done           == fsm_state_t("S:DONE", "act_done", NULL)
s_stoplight_init == fsm_state_t("S:INIT", "stoplight_init_enter", "act_exit")
s_red            == fsm_state_t("S:RED", "red_enter", "act_exit")
s_green          == fsm_state_t("S:GREEN", "green_enter", "act_exit")
s_yellow         == fsm_state_t("S:YELLOW", "yellow_enter", "act_exit")
s_green_but      == fsm_state_t("S:GREEN_BUT", "green_but_enter", "act_exit")
s_nowalk         == fsm_state_t("S:DONT_WALK", "act_enter", "act_exit")
s_walk           == fsm_state_t("S:WALK", "walk_enter", "act_exit")
s_blink          == fsm_state_t("S:BLINKING WALK", "act_enter", "act_exit")

\* The state object a pointer refers to.
State(p) ==
    CASE p = "s_init"           -> s_init
      [] p = "s_done"           -> s_done
      [] p = "s_stoplight_init" -> s_stoplight_init
      [] p = "s_red"            -> s_red
      [] p = "s_green"          -> s_green
      [] p = "s_yellow"         -> s_yellow
      [] p = "s_green_but"      -> s_green_but
      [] p = "s_nowalk"         -> s_nowalk
      [] p = "s_walk"           -> s_walk
      [] p = "s_blink"          -> s_blink

fsm_trans_t(c, e, g, n) == [currst_p |-> c, event |-> e, guard |-> g, nextst_p |-> n]

\* FSM1, stoplight: the rows as declared.  The array has no terminating row.
FSM1 ==
    << fsm_trans_t("s_stoplight_init", E_INIT, NULL, "s_green"),
       fsm_trans_t("s_green", E_LIGHT, NULL, "s_yellow"),
       fsm_trans_t("s_green", E_DONE, NULL, "s_done"),
       fsm_trans_t("s_green", E_BUTTON, "but_constraint", "s_green_but"),
       fsm_trans_t("s_yellow", E_LIGHT, NULL, "s_red"),
       fsm_trans_t("s_yellow", E_DONE, NULL, "s_done"),
       fsm_trans_t("s_red", E_LIGHT, NULL, "s_green"),
       fsm_trans_t("s_red", E_DONE, NULL, "s_done"),
       fsm_trans_t("s_green_but", E_LIGHT, NULL, "s_yellow") >>

\* FSM2, crosswalk: the rows as declared.  No terminating row either.
FSM2 ==
    << fsm_trans_t("s_init", E_INIT, NULL, "s_nowalk"),
       fsm_trans_t("s_nowalk", E_RED, NULL, "s_walk"),
       fsm_trans_t("s_nowalk", E_DONE, NULL, "s_done"),
       fsm_trans_t("s_walk", E_BLINK, NULL, "s_blink"),
       fsm_trans_t("s_walk", E_DONE, NULL, "s_done"),
       fsm_trans_t("s_blink", E_GREEN, NULL, "s_nowalk"),
       fsm_trans_t("s_blink", E_DONE, NULL, "s_done") >>

\* The table each worker is created with.
FsmOf(w) == IF w = "stoplight" THEN FSM1 ELSE FSM2

\* The events a worker may find in its queue: every event of the two tables
\* (the command line broadcasts any event number it is given).
RunEvents == {E_LIGHT, E_BLINK, E_INIT, E_RED, E_GREEN, E_YELLOW, E_BUTTON,
              E_DONE}

(***************************************************************************)
(* The timers the FSM actions use (timer.c).  A timer is its fsmtimer_t    *)
(* and its kernel timer (timerfd): the initial expiry (value) and the      *)
(* interval it is armed with (zero: disarmed), and the number of           *)
(* expirations not yet read, the descriptor being readable when that is    *)
(* not 0.                                                                  *)
(***************************************************************************)
\* The struct timespec set_timer_p computes from a period in milliseconds.
timespec(tick_ms) ==
    [tv_sec  |-> IF tick_ms # 0 THEN tick_ms \div 1000 ELSE 0,
     tv_nsec |-> IF tick_ms # 0 THEN (tick_ms % 1000) * 1000000 ELSE 0]

\* The milliseconds get_timer computes from a struct timespec.
msec(ts) == ts.tv_sec * 1000 + ts.tv_nsec \div 1000000

\* A kernel timer is disarmed when its it_value is zero.
Disarmed == [tv_sec |-> 0, tv_nsec |-> 0]

NoTimer == [exists |-> FALSE, evtid |-> E_BAD, tick_ms |-> 0, old_tick_ms |-> 0,
            value |-> Disarmed, interval |-> Disarmed, expirations |-> 0]

\* The null pointer to a timer (a pointer to a timer is the timer's id).
NoTimerP == -1

\* No timer API call.
NoCall == [op |-> "none", id |-> 0, arg |-> 0, before |-> <<>>]

\* What the malloc'ed old_tick_ms field, which create_timer does not set,
\* may hold.
MallocValues == {0, t_fast}

\* create_timer: the new timer, not armed.
create_timer(tm, timerid, evtid, old) ==
    [tm EXCEPT ![timerid] = [exists |-> TRUE, evtid |-> evtid, tick_ms |-> 0,
                             old_tick_ms |-> old, value |-> Disarmed,
                             interval |-> Disarmed, expirations |-> 0]]

\* Mutant of set_timer_p: the period is not saved before it is updated.
set_timer_p_unsaved(tm, timerid, tick_ms) ==
    [tm EXCEPT ![timerid].tick_ms = tick_ms,
               ![timerid].value = timespec(tick_ms),
               ![timerid].interval = timespec(tick_ms),
               ![timerid].expirations = 0]

\* set_timer_p: saves the period, stores the new one and arms the kernel
\* timer with value and interval tick_ms (0 disarms).  timerfd_settime
\* starts the timer anew: the expirations not yet read are dropped.
set_timer_p(tm, timerid, tick_ms) ==
    [tm EXCEPT ![timerid].old_tick_ms = tm[timerid].tick_ms,
               ![timerid].tick_ms = tick_ms,
               ![timerid].value = timespec(tick_ms),
               ![timerid].interval = timespec(tick_ms),
               ![timerid].expirations = 0]

\* get_timer: the time left to the next expiry, which is what has not yet
\* elapsed of the period: any value up to the period, 0 when disarmed.
get_timer(timerid) == 0..msec(timers[timerid].interval)

\* but_constraint: rem is the result of get_timer(TID_LIGHT).
but_constraint(rem) == rem > t_but

\* A call of the guard function g.
constraint(g, rem) == CASE g = "but_constraint" -> but_constraint(rem)

\* The broadcast of green_enter, yellow_enter and red_enter.
BroadcastOf(a) ==
    CASE a = "green_enter"  -> E_GREEN
      [] a = "yellow_enter" -> E_YELLOW
      [] a = "red_enter"    -> E_RED

\* The set_timer call of an entry action: <<timer id, period>>.
SetTimerOf(a) ==
    CASE a = "green_enter"     -> <<TID_LIGHT, t_norm>>
      [] a = "yellow_enter"    -> <<TID_LIGHT, t_fast>>
      [] a = "red_enter"       -> <<TID_LIGHT, t_norm>>
      [] a = "green_but_enter" -> <<TID_LIGHT, t_but>>
      [] a = "walk_enter"      -> <<TID_BLINK, t_blink>>

\* Mutant of stoplight_init_enter: only the timer of the stoplight is
\* created.
stoplight_init_enter_light_only ==
    IF \E id \in TimerIds : timers[id].exists
       THEN /\ proc' = "aborted"
            /\ timers' = timers
       ELSE /\ \E o1 \in MallocValues :
                 timers' = create_timer(timers, TID_LIGHT, E_LIGHT, o1)
            /\ proc' = proc

\* stoplight_init_enter: creates the two timers; create_timer dies when the
\* timer exists.
stoplight_init_enter ==
    IF \E id \in TimerIds : timers[id].exists
       THEN /\ proc' = "aborted"
            /\ timers' = timers
       ELSE /\ \E o1, o2 \in MallocValues :
                 timers' = create_timer(
                               create_timer(timers, TID_LIGHT, E_LIGHT, o1),
                               TID_BLINK, E_BLINK, o2)
            /\ proc' = proc

(***************************************************************************)
(* The FSM interpreter (fsm.h, fsm.c).                                     *)
(***************************************************************************)

\* The current state of a worker's FSM: fsm_p->currst_p, which is the
\* currst_p field of the first row of its table.
CurrentState(w) == fsm[w][1].currst_p

\* Mutant of fsm_init: the exit action of the state is run as well, as in a
\* transition of the state to itself.
fsm_init_reenter(w) ==
    /\ pc[w] = "start"
    /\ proc = "running"
    /\ h_log' = [h_log EXCEPT
                   ![w] = << <<"exit", CurrentState(w)>>,
                             <<"entry", CurrentState(w)>> >>]
    /\ pc' = [pc EXCEPT ![w] = "idle"]
    /\ UNCHANGED <<tvars, workers, qvars, evt_id, w_idx, ret_pc, id_p, ncalls,
                   nsent, hvars, fsm, nextst_p, ret, timers, proc, nruns,
                   run_evt, h_from, h_row, h_guard>>

\* fsm_init: runs the entry action of the current state.  The two initial
\* states have stoplight_init_enter and act_enter (a trace only).
fsm_init(w) ==
    /\ pc[w] = "start"
    /\ proc = "running"
    /\ LET a == State(CurrentState(w)).entry_action
       IN /\ h_log' = [h_log EXCEPT
                         ![w] = IF a = NULL THEN <<>>
                                ELSE << <<"entry", CurrentState(w)>> >>]
          /\ IF a = "stoplight_init_enter"
                THEN stoplight_init_enter
                ELSE UNCHANGED <<timers, proc>>
    /\ pc' = [pc EXCEPT ![w] = "idle"]
    /\ UNCHANGED <<tvars, workers, qvars, evt_id, w_idx, ret_pc, id_p, ncalls, nsent,
                   hvars, fsm, nextst_p, ret, nruns, run_evt, h_from, h_row,
                   h_guard>>

\* The row at which the scan of next_state ends inside the table: the first
\* row that is a terminator or that matches (current state, event); 0 when
\* the table has no such row and the scan goes on behind its last row.
ScanEnd(tbl, e) ==
    LET hits == {i \in DOMAIN tbl :
                    \/ tbl[i].currst_p = NULL
                    \/ (tbl[i].currst_p = tbl[1].currst_p /\ tbl[i].event = e)}
    IN IF hits = {} THEN 0 ELSE CHOOSE i \in hits : \A j \in hits : i <= j

\* next_state, when the scan ends inside the table.
next_state(tbl, e) ==
    LET r == ScanEnd(tbl, e)
    IN IF tbl[r].currst_p = NULL THEN NULL ELSE tbl[r].nextst_p

\* What reading behind the last row of a table does: the memory read holds a
\* null currst_p sooner or later ("null"), or the read faults, or it holds
\* what looks like a matching row whose nextst_p is no state ("fault").
OverRead == {"null", "fault"}

\* Entry of fsm_run(fsm_p, e) on worker w.
fsm_run(w, e) ==
    /\ run_evt' = [run_evt EXCEPT ![w] = e]
    /\ ret' = [ret EXCEPT ![w] = -1]
    /\ nextst_p' = [nextst_p EXCEPT ![w] = NULL]
    /\ pc' = [pc EXCEPT ![w] = "run_next"]
    /\ h_from' = [h_from EXCEPT ![w] = CurrentState(w)]
    /\ h_row' = [h_row EXCEPT ![w] = 0]
    /\ h_guard' = [h_guard EXCEPT ![w] = "none"]
    /\ h_log' = [h_log EXCEPT ![w] = <<>>]

\* nextst_p = next_state(fsm_p, evt_id)
fsm_run_next_state(w) ==
    /\ pc[w] = "run_next"
    /\ proc = "running"
    /\ LET r == ScanEnd(fsm[w], run_evt[w])
       IN /\ h_row' = [h_row EXCEPT ![w] = r]
          /\ IF r # 0
                THEN /\ nextst_p' = [nextst_p EXCEPT
                                       ![w] = next_state(fsm[w], run_evt[w])]
                     /\ pc' = [pc EXCEPT ![w] = "run_guard"]
                     /\ proc' = proc
                ELSE \E o \in OverRead :
                       IF o = "null"
                          THEN /\ nextst_p' = [nextst_p EXCEPT ![w] = NULL]
                               /\ pc' = [pc EXCEPT ![w] = "run_guard"]
                               /\ proc' = proc
                          ELSE /\ proc' = "fault"
                               /\ UNCHANGED <<nextst_p, pc>>
    /\ UNCHANGED <<tvars, workers, qvars, evt_id, w_idx, ret_pc, id_p, ncalls, nsent,
                   hvars, fsm, ret, timers, nruns, run_evt, h_from, h_guard,
                   h_log>>

\* if (nextst_p) { if (fsm_p->guard && false == fsm_p->guard(fsm_p)) ret = 1;
\* else ... }: the guard called is the guard field of the first row.
\* h_guard records what the guard of the row the scan ended at returns.
fsm_run_guard(w) ==
    /\ pc[w] = "run_guard"
    /\ proc = "running"
    /\ IF nextst_p[w] = NULL
          THEN /\ pc' = [pc EXCEPT ![w] = "run_ret"]
               /\ UNCHANGED <<ret, proc, h_guard>>
          ELSE \E rem \in get_timer(TID_LIGHT) :
                 /\ h_guard' = [h_guard EXCEPT
                       ![w] = IF fsm[w][h_row[w]].guard = NULL THEN "none"
                              ELSE IF constraint(fsm[w][h_row[w]].guard, rem)
                                      THEN "true" ELSE "false"]
                 /\ IF fsm[w][1].guard # NULL /\ ~timers[TID_LIGHT].exists
                       THEN /\ proc' = "aborted"
                            /\ UNCHANGED <<pc, ret>>
                       ELSE IF /\ fsm[w][1].guard # NULL
                               /\ ~constraint(fsm[w][1].guard, rem)
                               THEN /\ ret' = [ret EXCEPT ![w] = 1]
                                    /\ pc' = [pc EXCEPT ![w] = "run_ret"]
                                    /\ proc' = proc
                               ELSE /\ pc' = [pc EXCEPT ![w] = "run_exit"]
                                    /\ UNCHANGED <<ret, proc>>
    /\ UNCHANGED <<tvars, workers, qvars, evt_id, w_idx, ret_pc, id_p, ncalls, nsent,
                   hvars, fsm, nextst_p, timers, nruns, run_evt, h_from, h_row,
                   h_log>>

\* Mutant of fsm_run_exit: the exit action of the current state is not run.
fsm_run_exit_skipped(w) ==
    /\ pc[w] = "run_exit"
    /\ proc = "running"
    /\ pc' = [pc EXCEPT ![w] = "run_assign"]
    /\ UNCHANGED <<tvars, workers, qvars, evt_id, w_idx, ret_pc, id_p, ncalls, nsent,
                   hvars, fsm, nextst_p, ret, timers, proc, nruns, run_evt,
                   h_from, h_row, h_guard, h_log>>

\* if (fsm_p->currst_p->exit_action) fsm_p->currst_p->exit_action(...): the
\* only exit action of the two tables is act_exit, a trace.
fsm_run_exit(w) ==
    /\ pc[w] = "run_exit"
    /\ proc = "running"
    /\ h_log' = [h_log EXCEPT
                   ![w] = IF State(CurrentState(w)).exit_action = NULL THEN @
                          ELSE Append(@, <<"exit", CurrentState(w)>>)]
    /\ pc' = [pc EXCEPT ![w] = "run_assign"]
    /\ UNCHANGED <<tvars, workers, qvars, evt_id, w_idx, ret_pc, id_p, ncalls, nsent,
                   hvars, fsm, nextst_p, ret, timers, proc, nruns, run_evt,
                   h_from, h_row, h_guard>>

\* fsm_p->currst_p = nextst_p: written into the first row of the table.
fsm_run_assign(w) ==
    /\ pc[w] = "run_assign"
    /\ proc = "running"
    /\ fsm' = [fsm EXCEPT ![w][1].currst_p = nextst_p[w]]
    /\ h_log' = [h_log EXCEPT ![w] = Append(@, <<"assign", nextst_p[w]>>)]
    /\ pc' = [pc EXCEPT ![w] = "run_entry"]
    /\ UNCHANGED <<tvars, workers, qvars, evt_id, w_idx, ret_pc, id_p, ncalls, nsent,
                   hvars, nextst_p, ret, timers, proc, nruns, run_evt, h_from,
                   h_row, h_guard>>

\* if (fsm_p->currst_p->entry_action) fsm_p->currst_p->entry_action(...), up
\* to the first call of the action that can block or fail: act_enter only
\* traces, act_done leaves the thread with pthread_exit, green_enter,
\* yellow_enter and red_enter broadcast and then set the light timer,
\* green_but_enter and walk_enter set a timer.
fsm_run_entry(w) ==
    /\ pc[w] = "run_entry"
    /\ proc = "running"
    /\ LET a == State(CurrentState(w)).entry_action
       IN /\ h_log' = [h_log EXCEPT
                         ![w] = IF a = NULL THEN @
                                ELSE Append(@, <<"entry", CurrentState(w)>>)]
          /\ IF a \in {"green_enter", "yellow_enter", "red_enter"}
                THEN /\ workers_evt_broadcast(w, BroadcastOf(a), "act_set_timer")
                     /\ UNCHANGED <<timers, proc>>
                ELSE /\ pc' = [pc EXCEPT
                                 ![w] = CASE a = "act_done" -> "exited"
                                          [] a \in {"green_but_enter",
                                                    "walk_enter"}
                                                -> "act_set_timer"
                                          [] OTHER -> "run_passed"]
                     /\ IF a = "stoplight_init_enter"
                           THEN stoplight_init_enter
                           ELSE UNCHANGED <<timers, proc>>
                     /\ UNCHANGED <<evt_id, w_idx, ret_pc, nsent, issued,
                                    finished, hb>>
    /\ UNCHANGED <<tvars, workers, qvars, id_p, ncalls, appended, dequeued, fsm,
                   nextst_p, ret, nruns, run_evt, h_from, h_row, h_guard>>

\* set_timer(id, period) of the entry action: dies on an unknown timer.
act_set_timer(w) ==
    /\ pc[w] = "act_set_timer"
    /\ proc = "running"
    /\ LET st == SetTimerOf(State(CurrentState(w)).entry_action)
       IN IF timers[st[1]].exists
             THEN /\ timers' = set_timer_p(timers, st[1], st[2])
                  /\ pc' = [pc EXCEPT ![w] = "run_passed"]
                  /\ proc' = proc
             ELSE /\ proc' = "aborted"
                  /\ UNCHANGED <<timers, pc>>
    /\ UNCHANGED <<tvars, workers, qvars, evt_id, w_idx, ret_pc, id_p, ncalls, nsent,
                   hvars, fsm, nextst_p, ret, nruns, run_evt, h_from, h_row,
                   h_guard, h_log>>

\* dbg_verbose("Guard PASSED"); ret = 0
fsm_run_passed(w) ==
    /\ pc[w] = "run_passed"
    /\ proc = "running"
    /\ ret' = [ret EXCEPT ![w] = 0]
    /\ pc' = [pc EXCEPT ![w] = "run_ret"]
    /\ UNCHANGED <<tvars, workers, qvars, evt_id, w_idx, ret_pc, id_p, ncalls, nsent,
                   hvars, fsm, nextst_p, timers, proc, nruns, run_evt, h_from,
                   h_row, h_guard, h_log>>

\* return (ret)
fsm_run_return(w) ==
    /\ pc[w] = "run_ret"
    /\ proc = "running"
    /\ pc' = [pc EXCEPT ![w] = "idle"]
    /\ UNCHANGED <<tvars, workers, qvars, evt_id, w_idx, ret_pc, id_p, ncalls, nsent,
                   hvars, fvars>>

(***************************************************************************)
(* The callers: any thread may broadcast; a worker dequeues from its own   *)
(* queue in a loop.                                                        *)
(***************************************************************************)
call_broadcast(t) ==
    /\ pc[t] = "idle"
    /\ proc = "running"
    /\ ncalls < MaxBcast
    /\ ncalls' = ncalls + 1
    /\ \E e \in EventsOf(t) : workers_evt_broadcast(t, e, "idle")
    /\ UNCHANGED <<tvars, workers, qvars, id_p, appended, dequeued, fvars>>

call_pop(w) ==
    /\ pc[w] = "idle"
    /\ proc = "running"
    /\ pc' = [pc EXCEPT ![w] = "pop_lock"]
    /\ UNCHANGED <<tvars, workers, qvars, evt_id, w_idx, ret_pc, id_p, ncalls, nsent,
                   appended, dequeued, issued, finished, hb, fvars>>

\* The worker's task: fsm_init once, then fsm_run for each event it takes
\* from its queue.
call_fsm_init(w) == fsm_init(w)

call_fsm_run(w) ==
    /\ pc[w] = "idle"
    /\ proc = "running"
    /\ nruns < MaxRuns
    /\ nruns' = nruns + 1
    /\ \E e \in RunEvents : fsm_run(w, e)
    /\ UNCHANGED <<tvars, workers, qvars, evt_id, w_idx, ret_pc, id_p, ncalls, nsent,
                   hvars, fsm, timers, proc>>

\* The locals of a thread that is not in set_timer or toggle_timer.
NoArm == [op |-> "none", timerid |-> 0, tick_ms |-> 0, timer_p |-> NoTimerP]

\* The threads of evtdemo, and their positions when evtdemo does not run.
DemoThreads == {"main", "consumer", "timer"}
NoDemo == [t \in DemoThreads |-> "none"]

\* The name of the table worker w is created with: the argument fsm_p of
\* worker_fsm_create.
FsmName(w) == IF w = "stoplight" THEN "FSM1" ELSE "FSM2"

\* The worker_t of worker w when worker_fsm_create and worker_list_add have
\* returned.
Created(w) == [stage |-> "listed", fsm_p |-> FsmName(w)]

\* The state with the threads at the positions pc0, the workers having the
\* tables tbls, the timer list being tm, the registry being wl and the
\* worker_t being wp; the queues are empty.  dp: the positions of the
\* threads of evtdemo.
InitFull(pc0, tbls, tm, wl, wp, dp) ==
    /\ workers = wl
    /\ q_list = [w \in WorkerIds |-> evtq_create.list]
    /\ q_len = [w \in WorkerIds |-> evtq_create.len]
    /\ q_mutex = [w \in WorkerIds |-> evtq_create.mutex]
    /\ q_cond = [w \in WorkerIds |-> evtq_create.cond]
    /\ pc = pc0
    /\ evt_id = [t \in Threads |-> E_BAD]
    /\ w_idx = [t \in Threads |-> 1]
    /\ ret_pc = [t \in Threads |-> "idle"]
    /\ id_p = [w \in WorkerIds |-> E_BAD]
    /\ ncalls = 0
    /\ nsent = [t \in Threads |-> 0]
    /\ appended = [w \in WorkerIds |-> <<>>]
    /\ dequeued = [w \in WorkerIds |-> <<>>]
    /\ issued = {}
    /\ finished = {}
    /\ hb = {}
    /\ fsm = tbls
    /\ nextst_p = [w \in WorkerIds |-> NULL]
    /\ ret = [w \in WorkerIds |-> -1]
    /\ timers = tm
    /\ proc = "running"
    /\ nruns = 0
    /\ run_evt = [w \in WorkerIds |-> E_BAD]
    /\ h_from = [w \in WorkerIds |-> CurrentState(w)]
    /\ h_row = [w \in WorkerIds |-> 0]
    /\ h_guard = [w \in WorkerIds |-> "none"]
    /\ h_log = [w \in WorkerIds |-> <<>>]
    /\ svc = [events |-> <<>>, i |-> 1, timer_p |-> NoTimerP, res |-> 0]
    /\ ntcalls = 0
    /\ nexp = 0
    /\ h_call = <<NoCall, NoCall>>
    /\ h_quiet = [id \in TimerIds |-> FALSE]
    /\ h_svc = [reports |-> 0, reads |-> <<>>, bcasts |-> <<>>]
    /\ t_mutex = NoThread
    /\ arm = [t \in Threads |-> NoArm]
    /\ nhandled = [w \in WorkerIds |-> 0]
    /\ w_p = wp
    /\ h_seen = [w \in WorkerIds |-> "none"]
    /\ d_pc = dp
    /\ d_q = << <<>>, <<>> >>
    /\ d_cmd = "none"
    /\ d_exp = 0
    /\ d_nexp = 0
    /\ d_nprod = 0
    /\ h_done = FALSE
    /\ t_list = SelectSeq(<<TID_LIGHT, TID_BLINK>>, LAMBDA id : tm[id].exists)
    /\ h_self = [w \in WorkerIds |-> "none"]

\* The same when the workers are created and registered.
InitState(pc0, tbls, tm) ==
    InitFull(pc0, tbls, tm, WorkerList, [w \in WorkerIds |-> Created(w)],
             NoDemo)

\* The state after construction: no timer is created yet.
InitWith(pc0, tbls) == InitState(pc0, tbls, [id \in TimerIds |-> NoTimer])

\* The state after construction of the program: FSM1 and FSM2 as declared.
InitAt(pc0) == InitWith(pc0, [w \in WorkerIds |-> FsmOf(w)])

\* The queue and the broadcast on their own: every thread is ready to call.
Init == InitAt([t \in Threads |-> "idle"])

\* The workers at the start of their task.
InitFsm == InitAt([t \in Threads |-> IF t \in WorkerIds THEN "start" ELSE "idle"])

Push(t) ==
    \/ evtq_push_lock(t)
    \/ evtq_push_append(t)
    \/ evtq_push_signal(t)
    \/ evtq_push_unlock(t)

Pop(w) ==
    \/ evtq_pop_lock(w)
    \/ evtq_pop_check(w)
    \/ evtq_pop_relock(w)
    \/ evtq_pop_remove(w)
    \/ evtq_pop_unlock(w)

Next ==
    \/ \E t \in Threads : call_broadcast(t)
    \/ \E t \in Threads : Push(t)
    \/ \E w \in WorkerIds : call_pop(w)
    \/ \E w \in WorkerIds : Pop(w)
    \/ \E w \in WorkerIds : spurious_wakeup(w)

Spec == Init /\ [][Next]_vars

\* The specification of the liveness claims: the main thread and the timer
\* service enqueue, the crosswalk worker consumes.
LiveProducers == {"main", "timer"}
LiveConsumers == {"crosswalk"}

NextLive ==
    \/ \E t \in LiveProducers : call_broadcast(t)
    \/ \E t \in LiveProducers : Push(t)
    \/ \E w \in LiveConsumers : call_pop(w)
    \/ \E w \in LiveConsumers : Pop(w)
    \/ \E w \in LiveConsumers : spurious_wakeup(w)

\* The scheduler runs every thread that can take a step: an operation that
\* was called goes on, and a worker calls evtq_pop again when it returned.
\* A thread waiting for a mutex that is released again and again gets it in
\* the end (strong fairness of pthread_mutex_lock in evtq_push; the
\* consumer competes with finitely many enqueues only).  Nothing obliges a
\* thread to issue a broadcast, nor a wakeup to be spurious.
Fairness ==
    /\ \A t \in LiveProducers :
          /\ SF_vars(evtq_push_lock(t))
          /\ WF_vars(evtq_push_append(t) \/ evtq_push_signal(t)
                        \/ evtq_push_unlock(t))
    /\ \A w \in LiveConsumers : WF_vars(call_pop(w) \/ Pop(w))

SpecFair == Init /\ [][NextLive]_vars /\ Fairness

\* The FSM interpreter: each worker runs fsm_init and then fsm_run on the
\* events it is given, until its thread exits or the process ends.
NextFsm ==
    \/ \E w \in WorkerIds : call_fsm_init(w)
    \/ \E w \in WorkerIds : call_fsm_run(w)
    \/ \E w \in WorkerIds : fsm_run_next_state(w)
    \/ \E w \in WorkerIds : fsm_run_guard(w)
    \/ \E w \in WorkerIds : fsm_run_exit(w)
    \/ \E w \in WorkerIds : fsm_run_assign(w)
    \/ \E w \in WorkerIds : fsm_run_entry(w)
    \/ \E w \in WorkerIds : Push(w)
    \/ \E w \in WorkerIds : act_set_timer(w)
    \/ \E w \in WorkerIds : fsm_run_passed(w)
    \/ \E w \in WorkerIds : fsm_run_return(w)

SpecFsm == InitFsm /\ [][NextFsm]_vars

(***************************************************************************)
(* Properties of the event queue and of the broadcast.                     *)
(***************************************************************************)
IsPrefix(s, t) == Len(s) <= Len(t) /\ SubSeq(t, 1, Len(s)) = s

BagOfSeq(s) == [x \in Range(s) |-> Cardinality({i \in DOMAIN s : s[i] = x})]

Copies(s, n) == Cardinality({i \in DOMAIN s : s[i] = n})

Has(s, tg) == \E i \in DOMAIN s : s[i].tag = tg

\* If the node of broadcast b is in s, the node of broadcast a is in s at
\* an earlier position.
OrderedIn(s, a, b) ==
    Has(s, b) => \E i, j \in DOMAIN s : i < j /\ s[i].tag = a /\ s[j].tag = b

\* a and b are both in s, a first.
Precedes(s, a, b) ==
    \E i, j \in DOMAIN s : i < j /\ s[i].tag = a /\ s[j].tag = b

\* C1: the consumer of a queue dequeues the events in exactly the order in
\* which they were appended, and the events of any one thread in the order
\* in which that thread enqueued them.
C1_FifoOrder ==
    \A w \in WorkerIds :
        /\ IsPrefix(dequeued[w], appended[w])
        /\ \A i, j \in DOMAIN dequeued[w] :
              (i < j /\ dequeued[w][i].tag[1] = dequeued[w][j].tag[1])
                  => dequeued[w][i].tag[2] < dequeued[w][j].tag[2]

\* C1 witness: a consumer has dequeued two events that two different
\* threads enqueued.
C1_Witness ==
    \E w \in WorkerIds :
        /\ Len(dequeued[w]) >= 2
        /\ dequeued[w][1].tag[1] # dequeued[w][2].tag[1]

\* C2: the queue neither drops, duplicates nor fabricates events: what was
\* dequeued plus what is still queued is what was enqueued, as multisets, and
\* a consumer that has made as many dequeues as there were enqueues, all of
\* them returned, has received exactly the events submitted.
C2_NoLossNoDup ==
    \A w \in WorkerIds :
        /\ BagOfSeq(dequeued[w]) (+) BagOfSeq(q_list[w]) = BagOfSeq(appended[w])
        /\ ( /\ finished = {n.tag : n \in issued}
             /\ Len(dequeued[w]) = Cardinality(issued) )
              => /\ Range(dequeued[w]) = issued
                 /\ \A n \in issued : Copies(dequeued[w], n) = 1

\* C2 witness: two threads have each submitted an event and a consumer has
\* dequeued as many events as were submitted.
C2_Witness ==
    \E w \in WorkerIds :
        /\ Cardinality({n.tag[1] : n \in issued}) >= 2
        /\ finished = {n.tag : n \in issued}
        /\ Len(dequeued[w]) = Cardinality(issued)

\* C3: dequeue removes an element only after it has seen length > 0 with
\* the queue mutex held, also after a spurious wakeup or when the signal
\* came before the wait; the length never becomes negative.
C3_NoPopFromEmpty ==
    \A w \in WorkerIds :
        /\ q_len[w] >= 0
        /\ pc[w] = "pop_remove"
              => q_mutex[w] = w /\ q_len[w] > 0 /\ q_list[w] # <<>>
        /\ \A i \in DOMAIN dequeued[w] : dequeued[w][i] \in issued

\* C3 witness: a consumer has left pthread_cond_wait although its queue is
\* empty (no signal is sent for an empty queue: the wakeup is spurious).
C3_Witness ==
    \E w \in WorkerIds :
        /\ pc[w] = "pop_wake"
        /\ q_len[w] = 0
        /\ dequeued[w] # <<>>

\* The consumer is inside evtq_pop and has not taken an event yet.
Blocked(w) == pc[w] \in {"pop_lock", "pop_check", "pop_wait", "pop_wake"}

\* The number of evtq_pop calls of w that have returned.
Returned(w) == Len(dequeued[w]) - (IF pc[w] = "pop_unlock" THEN 1 ELSE 0)

\* C4: no wakeup is lost.  A consumer inside dequeue on an empty queue stays
\* inside it while nothing is enqueued, and, under fair scheduling, once the
\* k-th event has been appended to a queue the k-th dequeue returns.
C4_NoLostWakeup ==
    /\ [][\A w \in WorkerIds :
            (Blocked(w) /\ q_len[w] = 0 /\ q_len'[w] = 0) => Blocked(w)']_vars
    /\ \A w \in LiveConsumers : \A k \in 1..MaxBcast :
            (Len(appended[w]) >= k) ~> (Returned(w) >= k)

\* C4 witness: an event has been appended to the queue of a consumer that
\* is blocked in pthread_cond_wait, and the signal has not been sent yet.
C4_Witness ==
    \E w \in WorkerIds : \E t \in Threads :
        /\ pc[w] = "pop_wait"
        /\ w \in q_cond[w]
        /\ pc[t] = "push_signal"
        /\ QueueOf(t) = w
        /\ q_len[w] > 0

\* The workers a broadcasting thread has appended to so far.
Visited(t) ==
    {workers[j] : j \in 1..(IF pc[t] \in {"push_signal", "push_unlock"}
                               THEN w_idx[t] ELSE w_idx[t] - 1)}

\* C5: broadcast(E) appends exactly one copy of E to the queue of every
\* registered worker, in registry order, the caller's own queue included:
\* a broadcast in progress has reached a prefix of the registry, a broadcast
\* that returned has reached every queue once, and nothing else is queued.
C5_BroadcastOnceEach ==
    /\ \A n \in issued : \A w \in Range(workers) :
          Copies(appended[w], n) =
              IF n.tag \in finished \/ w \in Visited(n.tag[1]) THEN 1 ELSE 0
    /\ \A w \in Range(workers) : Range(appended[w]) \subseteq issued

\* C5 witness: a broadcast called by a registered worker has returned and
\* the worker's own queue received its copy.
C5_Witness ==
    \E n \in issued :
        /\ n.tag[1] \in Range(workers)
        /\ n.tag \in finished
        /\ Copies(appended[n.tag[1]], n) = 1

C7_OrderedOnlyWhenSequential ==
    \A p \in hb : p[1][1] # p[2][1] =>
        \A w \in Range(workers) :
            /\ Has(appended[w], p[1])
            /\ OrderedIn(appended[w], p[1], p[2])
            /\ Has(q_list[w], p[2])
                  => \/ Precedes(q_list[w], p[1], p[2])
                     \/ Has(dequeued[w], p[1])

\* C7 witness: one queue holds E before F, another F before E.
C7_Witness ==
    \E a, b \in {n.tag : n \in issued} : \E w1, w2 \in Range(workers) :
        /\ a[1] # b[1]
        /\ Precedes(appended[w1], a, b)
        /\ Precedes(appended[w2], b, a)

(***************************************************************************)
(* Properties of the FSM interpreter.                                      *)
(***************************************************************************)

\* The table has a row for the pair (state s, event e).
HasRow(tbl, s, e) ==
    \E i \in DOMAIN tbl : tbl[i].currst_p = s /\ tbl[i].event = e

\* C8: for every current state and event for which the declared table has
\* no row, fsm_run returns NoMatch (-1), leaves the current state as it was
\* and invokes no exit or entry action.
C8_NoRowNoMatch ==
    \A w \in WorkerIds :
        (pc[w] = "run_ret" /\ ~HasRow(FsmOf(w), h_from[w], run_evt[w]))
            => /\ ret[w] = -1
               /\ CurrentState(w) = h_from[w]
               /\ h_log[w] = <<>>

\* C8 witness: a call for a pair without a row is about to return.
C8_Witness ==
    \E w \in WorkerIds :
        /\ pc[w] = "run_ret"
        /\ ~HasRow(FsmOf(w), h_from[w], run_evt[w])
        /\ ret[w] = -1

\* C9: when the row matched by (current state, event) carries a guard and
\* that guard returns false, fsm_run returns GuardFailed (1), does not change
\* the current state and invokes neither the exit nor the entry action.
C9_GuardFalseNoTransition ==
    \A w \in WorkerIds :
        h_guard[w] = "false"
            => /\ pc[w] \in {"run_ret", "idle"}
               /\ ret[w] = 1
               /\ CurrentState(w) = h_from[w]
               /\ h_log[w] = <<>>

\* C9 witness: the guard of the matched row has returned false.
C9_Witness ==
    \E w \in WorkerIds :
        /\ h_guard[w] = "false"
        /\ fsm[w][h_row[w]].guard = "but_constraint"
        /\ h_from[w] = "s_green"
        /\ run_evt[w] = E_BUTTON

\* The call of fsm_run on worker w has matched a row whose guard is absent
\* or returned true, and is past the test of the guard.
Transitioning(w) ==
    /\ pc[w] \in {"run_exit", "run_assign", "run_entry", "push_lock",
                  "push_append", "push_signal", "push_unlock", "act_set_timer",
                  "run_passed", "run_ret", "exited"}
    /\ nextst_p[w] # NULL
    /\ h_guard[w] \in {"none", "true"}

\* The steps of a transition from the state the call began in to the
\* to_state of the matched row.
Expected(w) ==
    LET from == h_from[w]
        to == fsm[w][h_row[w]].nextst_p
    IN (IF State(from).exit_action = NULL THEN <<>>
        ELSE << <<"exit", from>> >>)
       \o << <<"assign", to>> >>
       \o (IF State(to).entry_action = NULL THEN <<>>
           ELSE << <<"entry", to>> >>)

\* The entry action has been called.
Entered(w) ==
    pc[w] \in {"push_lock", "push_append", "push_signal", "push_unlock",
               "act_set_timer", "run_passed", "run_ret", "exited"}

TblWorker == "crosswalk"
TblInitial == "s_init"
TblStates == {"s_init", "s_nowalk", "s_blink"}
TblEvents == {E_INIT, E_RED}

\* The row that ends a table: while (t_p->currst_p != NULL).
Terminator == fsm_trans_t(NULL, E_BAD, NULL, NULL)

TblRows ==
    {fsm_trans_t(x[1], x[2], NULL, x[3]) :
        x \in TblStates \X TblEvents \X TblStates}

\* The first row is a row of the initial state.
Tables ==
    {<<r[1], r[2], r[3], Terminator>> :
        r \in {x \in TblRows \X TblRows \X TblRows :
                  x[1].currst_p = TblInitial}}

InitTbl ==
    \E tbl \in Tables :
        InitWith([t \in Threads |-> "idle"],
                 [w \in WorkerIds |-> IF w = TblWorker THEN tbl ELSE FsmOf(w)])

\* A call of fsm_run on the table with one of its events.
call_fsm_run_tbl(w) ==
    /\ pc[w] = "idle"
    /\ proc = "running"
    /\ nruns < MaxRuns
    /\ nruns' = nruns + 1
    /\ \E e \in TblEvents : fsm_run(w, e)
    /\ UNCHANGED <<tvars, workers, qvars, evt_id, w_idx, ret_pc, id_p, ncalls, nsent,
                   hvars, fsm, timers, proc>>

NextTbl ==
    \/ call_fsm_run_tbl(TblWorker)
    \/ fsm_run_next_state(TblWorker)
    \/ fsm_run_guard(TblWorker)
    \/ fsm_run_exit(TblWorker)
    \/ fsm_run_assign(TblWorker)
    \/ fsm_run_entry(TblWorker)
    \/ fsm_run_passed(TblWorker)
    \/ fsm_run_return(TblWorker)

SpecTbl == InitTbl /\ [][NextTbl]_vars

\* The table as it was declared: fsm_run writes the currst_p of the first
\* row only, which was declared with the initial state.
DeclaredTbl == [fsm[TblWorker] EXCEPT ![1].currst_p = TblInitial]

\* The rows of table tbl with the pair (state s, event e).
RowsOf(tbl, s, e) ==
    {i \in DOMAIN tbl : tbl[i].currst_p = s /\ tbl[i].event = e}

\* The first of a non-empty set of rows.
FirstOf(rows) == CHOOSE i \in rows : \A j \in rows : i <= j

\* next_state has returned in the call of fsm_run on worker w.
Scanned(w) == pc[w] = "run_guard"

\* C11: when several rows of the declared table have the pair (current
\* state, event), the transition fsm_run takes is the one of the first such
\* row in table order.
C11_FirstDeclaredRow ==
    LET rows == RowsOf(DeclaredTbl, h_from[TblWorker], run_evt[TblWorker])
    IN (Scanned(TblWorker) /\ Cardinality(rows) > 1)
          => nextst_p[TblWorker] = DeclaredTbl[FirstOf(rows)].nextst_p

\* C11 witness: several rows have the pair and the scan ended at the first
\* of them, which is not the first row of the table.
C11_Witness ==
    LET rows == RowsOf(DeclaredTbl, h_from[TblWorker], run_evt[TblWorker])
    IN /\ Scanned(TblWorker)
       /\ Cardinality(rows) > 1
       /\ h_row[TblWorker] = FirstOf(rows)
       /\ h_row[TblWorker] > 1

\* C12: the transition table is immutable: after any sequence of fsm_init
\* and fsm_run calls every row of FSM1 and FSM2 has the from_state, event,
\* guard and to_state it was declared with.
C12_TableImmutable ==
    \A w \in WorkerIds :
        \A i \in DOMAIN fsm[w] :
            /\ fsm[w][i].currst_p = FsmOf(w)[i].currst_p
            /\ fsm[w][i].event = FsmOf(w)[i].event
            /\ fsm[w][i].guard = FsmOf(w)[i].guard
            /\ fsm[w][i].nextst_p = FsmOf(w)[i].nextst_p

\* C12 witness: a call of fsm_run has assigned the new current state; all
\* rows but the first are as declared.
C12_Witness ==
    \E w \in WorkerIds :
        /\ pc[w] = "run_entry"
        /\ \A i \in DOMAIN fsm[w] : i > 1 => fsm[w][i] = FsmOf(w)[i]

\* C13: in S:GREEN on E_BUTTON the stoplight goes to S:GREEN_BUT and sets the
\* LIGHT timer to t_but only if the time the LIGHT timer has left is greater
\* than t_but (but_constraint true); otherwise it stays in S:GREEN and the
\* timer keeps the period green_enter gave it.
C13_ButtonOnlyWithTimeLeft ==
    LET w == "stoplight"
    IN (/\ pc[w] = "run_ret"
        /\ h_from[w] = "s_green"
        /\ run_evt[w] = E_BUTTON)
          => IF h_guard[w] = "true"
                THEN /\ CurrentState(w) = "s_green_but"
                     /\ timers[TID_LIGHT].tick_ms = t_but
                ELSE /\ CurrentState(w) = "s_green"
                     /\ timers[TID_LIGHT].tick_ms = t_norm

\* C13 witness: the button was pressed in S:GREEN with more than t_but left,
\* and the stoplight is in S:GREEN_BUT with the LIGHT timer set to t_but.
C13_Witness ==
    LET w == "stoplight"
    IN /\ pc[w] = "run_ret"
       /\ h_from[w] = "s_green"
       /\ run_evt[w] = E_BUTTON
       /\ h_guard[w] = "true"
       /\ CurrentState(w) = "s_green_but"
       /\ timers[TID_LIGHT].tick_ms = t_but

\* C14: orderly shutdown.  Whatever state its FSM is in, a worker that takes
\* E_DONE from its queue transitions to S:DONE, runs the terminal action and
\* exits (so that join returns): the call of fsm_run for E_DONE neither
\* returns to the worker's loop nor ends the process with a fault.
C14_DoneEndsWorker ==
    \A w \in WorkerIds :
        run_evt[w] = E_DONE
            => /\ pc[w] \notin {"run_ret", "idle"}
               /\ proc # "fault"

\* C14 witness: a worker given E_DONE is in S:DONE and has exited.
C14_Witness ==
    \E w \in WorkerIds :
        /\ run_evt[w] = E_DONE
        /\ pc[w] = "exited"
        /\ CurrentState(w) = "s_done"

(***************************************************************************)
(* The timer API (create_timer, set_timer, toggle_timer) called from the   *)
(* main thread, the kernel timers, and the timer service thread            *)
(* (timer_service_fn), which is in its loop.  A timer's descriptor is      *)
(* identified with its timer id.                                           *)
(***************************************************************************)

\* Bound: number of timer API calls in one run.
MaxTimerCalls == 4

\* Bound: number of set_timer calls in one run of the timer service.
MaxSvcCalls == 2

\* Bound: number of timer expiries in one run.
MaxExpire == 2

\* The periods set_timer is called with (command f of the command line).
Periods == {0, 500, 2000}

\* The event each timer is created with (stoplight_init_enter).
TimerEvt(id) == IF id = TID_LIGHT THEN E_LIGHT ELSE E_BLINK

\* The thread that calls the timer API, and the service thread.
ApiThread == "main"
SvcThread == "timer"

fsmvars == <<fsm, nextst_p, ret, nruns, run_evt, h_from, h_row, h_guard, h_log>>

\* find_timer_by_id: the timer with that id, or the null pointer.
find_timer_by_id(tm, timerid) ==
    IF tm[timerid].exists THEN timerid ELSE NoTimerP

\* find_timer_by_pollfd: the timer with that descriptor, or the null pointer.
find_timer_by_pollfd(tm, pollfd) ==
    IF tm[pollfd].exists THEN pollfd ELSE NoTimerP

\* The record of a timer API call: the registry as it was when called.
Call(op, id, arg) == [op |-> op, id |-> id, arg |-> arg, before |-> timers]

\* Mutant of call_create_timer: the test for an existing timer is left out.
call_create_timer_unchecked(t) ==
    /\ pc[t] = "idle"
    /\ proc = "running"
    /\ ntcalls < MaxTimerCalls
    /\ ntcalls' = ntcalls + 1
    /\ \E id \in TimerIds, old \in MallocValues :
          /\ h_call' = <<Call("create", id, TimerEvt(id)), h_call[1]>>
          /\ timers' = create_timer(timers, id, TimerEvt(id), old)
          /\ proc' = proc
    /\ UNCHANGED <<lvars, workers, qvars, pc, evt_id, w_idx, ret_pc, id_p,
                   ncalls, nsent, hvars, fsmvars, svc, nexp, h_quiet, h_svc>>

\* create_timer(timerid, evtid): dies when the timer exists, adds it to the
\* list and to the poll list otherwise.
call_create_timer(t) ==
    /\ pc[t] = "idle"
    /\ proc = "running"
    /\ ntcalls < MaxTimerCalls
    /\ ntcalls' = ntcalls + 1
    /\ \E id \in TimerIds, old \in MallocValues :
          /\ h_call' = <<Call("create", id, TimerEvt(id)), h_call[1]>>
          /\ IF find_timer_by_id(timers, id) # NoTimerP
                THEN /\ proc' = "aborted"
                     /\ timers' = timers
                ELSE /\ timers' = create_timer(timers, id, TimerEvt(id), old)
                     /\ proc' = proc
    /\ UNCHANGED <<lvars, workers, qvars, pc, evt_id, w_idx, ret_pc, id_p,
                   ncalls, nsent, hvars, fsmvars, svc, nexp, h_quiet, h_svc>>

\* Mutant of call_set_timer: an unknown timer is set like a known one.
call_set_timer_unchecked(t) ==
    /\ pc[t] = "idle"
    /\ proc = "running"
    /\ ntcalls < MaxTimerCalls
    /\ ntcalls' = ntcalls + 1
    /\ \E id \in TimerIds, tick_ms \in Periods :
          /\ h_call' = <<Call("set", id, tick_ms), h_call[1]>>
          /\ timers' = set_timer_p(timers, id, tick_ms)
          /\ h_quiet' = [h_quiet EXCEPT ![id] = (tick_ms = 0)]
          /\ proc' = proc
    /\ UNCHANGED <<lvars, workers, qvars, pc, evt_id, w_idx, ret_pc, id_p,
                   ncalls, nsent, hvars, fsmvars, svc, nexp, h_svc>>

\* set_timer(timerid, tick_ms): dies on an unknown timer.
call_set_timer(t) ==
    /\ pc[t] = "idle"
    /\ proc = "running"
    /\ ntcalls < MaxTimerCalls
    /\ ntcalls' = ntcalls + 1
    /\ \E id \in TimerIds, tick_ms \in Periods :
          /\ h_call' = <<Call("set", id, tick_ms), h_call[1]>>
          /\ IF find_timer_by_id(timers, id) = NoTimerP
                THEN /\ proc' = "aborted"
                     /\ UNCHANGED <<timers, h_quiet>>
                ELSE /\ timers' = set_timer_p(timers, id, tick_ms)
                     /\ h_quiet' = [h_quiet EXCEPT ![id] = (tick_ms = 0)]
                     /\ proc' = proc
    /\ UNCHANGED <<lvars, workers, qvars, pc, evt_id, w_idx, ret_pc, id_p,
                   ncalls, nsent, hvars, fsmvars, svc, nexp, h_svc>>

\* get_timer(timerid): dies on an unknown timer, returns the milliseconds
\* left to the next expiry otherwise (the caller's local; no state changes).
call_get_timer(t) ==
    /\ pc[t] = "idle"
    /\ proc = "running"
    /\ ntcalls < MaxTimerCalls
    /\ ntcalls' = ntcalls + 1
    /\ \E id \in TimerIds :
          /\ h_call' = <<Call("get", id, 0), h_call[1]>>
          /\ IF find_timer_by_id(timers, id) = NoTimerP
                THEN proc' = "aborted"
                ELSE /\ get_timer(id) # {}
                     /\ proc' = proc
    /\ UNCHANGED <<lvars, workers, qvars, pc, evt_id, w_idx, ret_pc, id_p,
                   ncalls, nsent, hvars, fsmvars, timers, svc, nexp, h_quiet, h_svc>>

\* Mutant of toggle_timer: the timer is switched off whatever its period.
toggle_timer_off(tm, timerid) == set_timer_p(tm, timerid, 0)

\* toggle_timer on an existing timer.
toggle_timer(tm, timerid) ==
    IF tm[timerid].tick_ms # 0
       THEN set_timer_p(tm, timerid, 0)
       ELSE set_timer_p(tm, timerid, tm[timerid].old_tick_ms)

\* toggle_timer(timerid): returns -1 on an unknown timer.
call_toggle_timer(t) ==
    /\ pc[t] = "idle"
    /\ proc = "running"
    /\ ntcalls < MaxTimerCalls
    /\ ntcalls' = ntcalls + 1
    /\ \E id \in TimerIds :
          /\ h_call' = <<Call("toggle", id, 0), h_call[1]>>
          /\ IF find_timer_by_id(timers, id) = NoTimerP
                THEN UNCHANGED <<timers, h_quiet>>
                ELSE /\ timers' = toggle_timer(timers, id)
                     /\ h_quiet' = [h_quiet EXCEPT
                                      ![id] = @ /\ timers'[id].tick_ms = 0]
    /\ UNCHANGED <<lvars, workers, qvars, pc, evt_id, w_idx, ret_pc, id_p,
                   ncalls, nsent, hvars, fsmvars, proc, svc, nexp, h_svc>>

\* The kernel: an armed timer expires.  Time is not counted: the expiry of
\* an armed timer may come at any moment.
timer_expire(id) ==
    /\ proc = "running"
    /\ timers[id].exists
    /\ timers[id].value # Disarmed
    /\ nexp < MaxExpire
    /\ nexp' = nexp + 1
    /\ timers' = [timers EXCEPT ![id].expirations = @ + 1]
    /\ UNCHANGED <<lvars, workers, qvars, pc, evt_id, w_idx, ret_pc, id_p,
                   ncalls, nsent, hvars, fsmvars, proc, svc, ntcalls, h_call, h_quiet,
                   h_svc>>

\* The orders in which the descriptors of set S may be reported.
SeqsOf(S) == {s \in [1..Cardinality(S) -> S] : Range(s) = S}

\* nfds = epoll_wait(fd_epoll, events, MAX_TIMERS, 200) with nfds > 0: the
\* readable descriptors.  With nfds = 0 the loop comes back here.
svc_poll ==
    /\ pc[SvcThread] = "svc_poll"
    /\ proc = "running"
    /\ LET ready == {id \in TimerIds :
                        timers[id].exists /\ timers[id].expirations > 0}
       IN /\ ready # {}
          /\ \E ev \in SeqsOf(ready) :
                svc' = [svc EXCEPT !.events = ev, !.i = 1]
    /\ pc' = [pc EXCEPT ![SvcThread] = "svc_lookup"]
    /\ UNCHANGED <<lvars, workers, qvars, evt_id, w_idx, ret_pc, id_p, ncalls,
                   nsent, hvars, fsmvars, timers, proc, ntcalls, nexp, h_call,
                   h_quiet, h_svc>>

\* timer_p = find_timer_by_pollfd(events[i].data.fd); dies when not found.
svc_lookup ==
    /\ pc[SvcThread] = "svc_lookup"
    /\ proc = "running"
    /\ LET timer_p == find_timer_by_pollfd(timers, svc.events[svc.i])
       IN /\ svc' = [svc EXCEPT !.timer_p = timer_p]
          /\ h_svc' = [h_svc EXCEPT !.reports = @ + 1]
          /\ IF timer_p # NoTimerP
                THEN /\ pc' = [pc EXCEPT ![SvcThread] = "svc_read"]
                     /\ proc' = proc
                ELSE /\ proc' = "aborted"
                     /\ pc' = pc
    /\ UNCHANGED <<lvars, workers, qvars, evt_id, w_idx, ret_pc, id_p, ncalls,
                   nsent, hvars, fsmvars, timers, ntcalls, nexp, h_call,
                   h_quiet>>

\* read(events[i].data.fd, &res, sizeof(res)): the descriptor is a blocking
\* one; the read waits until the counter of expirations is not 0, returns
\* it and resets it.
svc_read ==
    /\ pc[SvcThread] = "svc_read"
    /\ proc = "running"
    /\ LET fd == svc.events[svc.i]
       IN /\ timers[fd].expirations > 0
          /\ svc' = [svc EXCEPT !.res = timers[fd].expirations]
          /\ timers' = [timers EXCEPT ![fd].expirations = 0]
          /\ h_svc' = [h_svc EXCEPT
                         !.reads = Append(@, <<fd, timers[fd].expirations>>)]
    /\ pc' = [pc EXCEPT ![SvcThread] = "svc_bcast"]
    /\ UNCHANGED <<lvars, workers, qvars, evt_id, w_idx, ret_pc, id_p, ncalls,
                   nsent, hvars, fsmvars, proc, ntcalls, nexp, h_call,
                   h_quiet>>

\* workers_evt_broadcast(timer_p->evtid)
svc_bcast ==
    /\ pc[SvcThread] = "svc_bcast"
    /\ proc = "running"
    /\ workers_evt_broadcast(SvcThread, timers[svc.timer_p].evtid, "svc_next")
    /\ h_svc' = [h_svc EXCEPT
                   !.bcasts = Append(@, [id |-> svc.timer_p,
                                         evtid |-> timers[svc.timer_p].evtid,
                                         quiet |-> h_quiet[svc.timer_p]])]
    /\ UNCHANGED <<lvars, workers, qvars, id_p, ncalls, appended, dequeued,
                   fsmvars, timers, proc, svc, ntcalls, nexp, h_call, h_quiet>>

\* Mutant of svc_next: one more broadcast for every expiration counted.
svc_next_per_tick ==
    /\ pc[SvcThread] = "svc_next"
    /\ proc = "running"
    /\ IF svc.res > 1
          THEN /\ svc' = [svc EXCEPT !.res = @ - 1]
               /\ pc' = [pc EXCEPT ![SvcThread] = "svc_bcast"]
          ELSE /\ svc' = [svc EXCEPT !.i = @ + 1]
               /\ pc' = [pc EXCEPT
                           ![SvcThread] = IF svc.i < Len(svc.events)
                                             THEN "svc_lookup" ELSE "svc_poll"]
    /\ UNCHANGED <<lvars, workers, qvars, evt_id, w_idx, ret_pc, id_p, ncalls,
                   nsent, hvars, fsmvars, timers, proc, ntcalls, nexp, h_call,
                   h_quiet, h_svc>>

\* for (i=0; i<nfds; i++): the next reported descriptor, or the next poll.
svc_next ==
    /\ pc[SvcThread] = "svc_next"
    /\ proc = "running"
    /\ svc' = [svc EXCEPT !.i = @ + 1]
    /\ pc' = [pc EXCEPT
                ![SvcThread] = IF svc.i < Len(svc.events)
                                  THEN "svc_lookup" ELSE "svc_poll"]
    /\ UNCHANGED <<lvars, workers, qvars, evt_id, w_idx, ret_pc, id_p, ncalls,
                   nsent, hvars, fsmvars, timers, proc, ntcalls, nexp, h_call,
                   h_quiet, h_svc>>

\* The main thread is ready to call, the service thread is at its poll.
InitTimer ==
    InitAt([t \in Threads |-> IF t = SvcThread THEN "svc_poll" ELSE "idle"])

\* The same when the stoplight has created its two timers
\* (stoplight_init_enter).
InitSvc ==
    \E o1, o2 \in MallocValues :
        InitState([t \in Threads |->
                      IF t = SvcThread THEN "svc_poll" ELSE "idle"],
                  [w \in WorkerIds |-> FsmOf(w)],
                  create_timer(
                      create_timer([id \in TimerIds |-> NoTimer],
                                   TID_LIGHT, E_LIGHT, o1),
                      TID_BLINK, E_BLINK, o2))

\* A call of set_timer while the service runs.
main_set_timer ==
    /\ ntcalls < MaxSvcCalls
    /\ call_set_timer(ApiThread)

\* The timer API on its own: the calls of the main thread and the kernel
\* timers.
NextTimerApi ==
    \/ call_create_timer(ApiThread)
    \/ call_set_timer(ApiThread)
    \/ call_get_timer(ApiThread)
    \/ call_toggle_timer(ApiThread)
    \/ \E id \in TimerIds : timer_expire(id)

SpecTimerApi == InitTimer /\ [][NextTimerApi]_vars

\* The timer service: the main thread sets the timers while the service
\* thread polls, reads and broadcasts.
NextTimer ==
    \/ main_set_timer
    \/ \E id \in TimerIds : timer_expire(id)
    \/ svc_poll
    \/ svc_lookup
    \/ svc_read
    \/ svc_bcast
    \/ Push(SvcThread)
    \/ svc_next

SpecTimer == InitSvc /\ [][NextTimer]_vars

(***************************************************************************)
(* Properties of the timers.                                               *)
(***************************************************************************)

\* The latest timer API call and the one before it.
LastCall == h_call[1]
PrevCall == h_call[2]

\* The kernel timer of timer t is armed as a periodic timer with initial
\* expiry and interval p milliseconds; with p = 0 it is disarmed.
ArmedWith(t, p) ==
    /\ msec(t.value) = p
    /\ msec(t.interval) = p
    /\ (t.value = Disarmed) = (p = 0)

\* C15: set(id, P) on an existing timer stores the old current period as
\* the previous period (old_tick_ms), stores P as the current period
\* (tick_ms) and arms the kernel timer as a periodic timer with initial
\* expiry and interval both P when P > 0, or disarms it when P = 0.
C15_SetStoresAndArms ==
    (LastCall.op = "set" /\ LastCall.before[LastCall.id].exists)
        => LET t == timers[LastCall.id]
           IN /\ proc = "running"
              /\ t.old_tick_ms = LastCall.before[LastCall.id].tick_ms
              /\ t.tick_ms = LastCall.arg
              /\ ArmedWith(t, LastCall.arg)

\* C15 witness: a timer with a period other than 0 was set to another
\* period other than 0.
C15_Witness ==
    /\ LastCall.op = "set"
    /\ LastCall.before[LastCall.id].exists
    /\ LastCall.before[LastCall.id].tick_ms # 0
    /\ LastCall.arg # 0
    /\ LastCall.arg # LastCall.before[LastCall.id].tick_ms
    /\ timers[LastCall.id].old_tick_ms = LastCall.before[LastCall.id].tick_ms
    /\ ArmedWith(timers[LastCall.id], LastCall.arg)

\* C16: toggle(id) on an existing timer disarms it (period 0) when its
\* current period is not 0, and otherwise arms it with the period saved as
\* the previous one.
C16_ToggleStopsOrRestores ==
    (LastCall.op = "toggle" /\ LastCall.before[LastCall.id].exists)
        => LET b == LastCall.before[LastCall.id]
               t == timers[LastCall.id]
           IN IF b.tick_ms # 0
                 THEN t.tick_ms = 0 /\ ArmedWith(t, 0)
                 ELSE t.tick_ms = b.old_tick_ms /\ ArmedWith(t, b.old_tick_ms)

\* C16 witness: a stopped timer whose previous period is 500 ms was toggled
\* and is armed with 500 ms.
C16_Witness ==
    /\ LastCall.op = "toggle"
    /\ LastCall.before[LastCall.id].exists
    /\ LastCall.before[LastCall.id].tick_ms = 0
    /\ LastCall.before[LastCall.id].old_tick_ms = 500
    /\ timers[LastCall.id].tick_ms = 500
    /\ timers[LastCall.id].value = timespec(500)

\* C17: toggle applied twice to a timer, with no other timer call in
\* between, leaves the timer with the current period and the armed or
\* disarmed kernel timer it had before the two toggles.
C17_ToggleTwice ==
    (/\ LastCall.op = "toggle"
     /\ PrevCall.op = "toggle"
     /\ PrevCall.id = LastCall.id
     /\ PrevCall.before[PrevCall.id].exists)
        => LET b == PrevCall.before[PrevCall.id]
               t == timers[LastCall.id]
           IN /\ t.tick_ms = b.tick_ms
              /\ t.value = b.value
              /\ t.interval = b.interval

\* C17 witness: a timer armed with 500 ms was toggled twice and is armed
\* with 500 ms.
C17_Witness ==
    /\ LastCall.op = "toggle"
    /\ PrevCall.op = "toggle"
    /\ PrevCall.id = LastCall.id
    /\ PrevCall.before[PrevCall.id].exists
    /\ PrevCall.before[PrevCall.id].tick_ms = 500
    /\ LastCall.before[LastCall.id].tick_ms = 0
    /\ timers[LastCall.id].tick_ms = 500
    /\ ArmedWith(timers[LastCall.id], 500)

\* C18: after set(id, 0) has returned, the timer service issues no
\* broadcast of that timer's event until the timer is armed again.
C18_NoBroadcastAfterStop ==
    \A k \in DOMAIN h_svc.bcasts : ~h_svc.bcasts[k].quiet

\* C18 witness: set(id, 0) returned while an expiration of the timer was
\* not yet read nor reported; the service is at its poll, has nothing to
\* report and has broadcast nothing.
C18_Witness ==
    /\ LastCall.op = "set"
    /\ LastCall.arg = 0
    /\ LastCall.before[LastCall.id].exists
    /\ LastCall.before[LastCall.id].expirations > 0
    /\ h_quiet[LastCall.id]
    /\ timers[LastCall.id].expirations = 0
    /\ pc[SvcThread] = "svc_poll"
    /\ h_svc.bcasts = <<>>

\* The service thread is inside workers_evt_broadcast.
Broadcasting ==
    pc[SvcThread] \in {"push_lock", "push_append", "push_signal", "push_unlock"}

\* C19: for each reported descriptor the service takes up it broadcasts the
\* event the timer was created with exactly once, whatever the counter of
\* expirations it read (1 or more), and every worker's queue receives one
\* event for it.
C19_OneBroadcastPerReport ==
    LET n == Len(h_svc.bcasts)
    IN /\ h_svc.reports =
             IF pc[SvcThread] \in {"svc_read", "svc_bcast"} THEN n + 1 ELSE n
       /\ Len(h_svc.reads) = IF pc[SvcThread] = "svc_bcast" THEN n + 1 ELSE n
       /\ \A k \in 1..n :
             /\ h_svc.reads[k][2] >= 1
             /\ h_svc.bcasts[k].id = h_svc.reads[k][1]
             /\ h_svc.bcasts[k].evtid = TimerEvt(h_svc.reads[k][1])
       /\ \A w \in WorkerIds :
             /\ Len(appended[w]) \in {n - 1, n}
             /\ ~Broadcasting => Len(appended[w]) = n
             /\ \A k \in DOMAIN appended[w] :
                   appended[w][k].event_id = h_svc.bcasts[k].evtid

\* C19 witness: the service read a counter of 2 and has finished the one
\* broadcast for it.
C19_Witness ==
    /\ pc[SvcThread] = "svc_next"
    /\ svc.res = 2
    /\ Len(h_svc.bcasts) = 1
    /\ h_svc.reports = 1
    /\ \A w \in WorkerIds : Len(appended[w]) = 1

\* C20: create_timer for an id that is in the registry fails (the process
\* aborts): no timer is added and the registry is as it was.
C20_CreateExistingFails ==
    (LastCall.op = "create" /\ LastCall.before[LastCall.id].exists)
        => /\ proc = "aborted"
           /\ timers = LastCall.before

\* C20 witness: create_timer was called for a timer that exists and is
\* armed, and the process has aborted.
C20_Witness ==
    /\ LastCall.op = "create"
    /\ LastCall.before[LastCall.id].exists
    /\ LastCall.before[LastCall.id].tick_ms # 0
    /\ proc = "aborted"

\* C21: set_timer and get_timer called with an id that is not in the timer
\* list abort the process instead of returning, and modify no timer.
C21_SetGetUnknownAbort ==
    (/\ LastCall.op \in {"set", "get"}
     /\ ~LastCall.before[LastCall.id].exists)
        => /\ proc = "aborted"
           /\ timers = LastCall.before

\* C21 witness: set_timer was called for a timer that does not exist while
\* the other timer is armed; the process has aborted.
C21_Witness ==
    /\ LastCall.op = "set"
    /\ LastCall.arg # 0
    /\ ~LastCall.before[LastCall.id].exists
    /\ \E id \in TimerIds : timers[id].exists /\ timers[id].tick_ms # 0
    /\ proc = "aborted"

\* C22: toggle_timer called with an id that is not in the timer list aborts
\* the process, like the other timer operations on an unknown timer id.
C22_ToggleUnknownAborts ==
    (LastCall.op = "toggle" /\ ~LastCall.before[LastCall.id].exists)
        => proc = "aborted"

\* C22 witness: toggle_timer was called for a timer that does not exist and
\* no timer was modified.
C22_Witness ==
    /\ LastCall.op = "toggle"
    /\ ~LastCall.before[LastCall.id].exists
    /\ timers = LastCall.before

(***************************************************************************)
(* The timer API in steps.  set_timer and toggle_timer are called from the *)
(* command line on the main thread (cli.c) and from the entry and exit     *)
(* actions on a worker thread (fsm_defs.h), so two calls can run at the    *)
(* same time.  find_timer_by_id locks timer_list.mutex for its scan;       *)
(* set_timer_p writes old_tick_ms, writes tick_ms and calls                *)
(* timerfd_settime.                                                        *)
(***************************************************************************)

\* Bound: number of set_timer and toggle_timer calls in one run.
MaxArmCalls == 2

\* The threads that arm: the command line and a worker.
ArmThreads == {"main", "crosswalk"}

\* The worker is in evtq_pop when it is not in an action of its FSM.
ArmConsumer == "crosswalk"

\* The positions of a thread inside set_timer or toggle_timer.
ArmLabels == {"arm_lock", "arm_unlock", "arm_toggle", "arm_toggle_old",
              "arm_save", "arm_store", "arm_settime"}

\* set_timer(timerid, tick_ms) or toggle_timer(timerid) is called.
call_arm(t) ==
    /\ pc[t] = "idle"
    /\ proc = "running"
    /\ ntcalls < MaxArmCalls
    /\ ntcalls' = ntcalls + 1
    /\ \E op \in {"set", "toggle"}, id \in TimerIds, p \in Periods :
          /\ op = "toggle" => p = 0
          /\ arm' = [arm EXCEPT ![t] = [op |-> op, timerid |-> id,
                                        tick_ms |-> p, timer_p |-> NoTimerP]]
    /\ pc' = [pc EXCEPT ![t] = "arm_lock"]
    /\ UNCHANGED <<rvars, dvars, t_mutex, nhandled, w_p, h_seen, workers, qvars, evt_id, w_idx, ret_pc, id_p,
                   ncalls, nsent, hvars, fsmvars, timers, proc, svc, nexp,
                   h_call, h_quiet, h_svc>>

\* find_timer_by_id: pthread_mutex_lock(&timer_list.mutex) and the scan of
\* the list.
find_timer_by_id_lock(t) ==
    /\ pc[t] = "arm_lock"
    /\ proc = "running"
    /\ t_mutex = NoThread
    /\ t_mutex' = t
    /\ arm' = [arm EXCEPT
                 ![t].timer_p = find_timer_by_id(timers, arm[t].timerid)]
    /\ pc' = [pc EXCEPT ![t] = "arm_unlock"]
    /\ UNCHANGED <<rvars, dvars, nhandled, w_p, h_seen, workers, qvars, evt_id, w_idx, ret_pc, id_p,
                   ncalls, nsent, hvars, fsmvars, timers, proc, svc, ntcalls,
                   nexp, h_call, h_quiet, h_svc>>

\* find_timer_by_id: pthread_mutex_unlock and the return; the caller's test
\* of the result (set_timer dies, toggle_timer returns -1).
find_timer_by_id_unlock(t) ==
    /\ pc[t] = "arm_unlock"
    /\ proc = "running"
    /\ t_mutex = t
    /\ t_mutex' = NoThread
    /\ IF arm[t].timer_p = NoTimerP
          THEN IF arm[t].op = "set"
                  THEN proc' = "aborted" /\ pc' = pc
                  ELSE proc' = proc /\ pc' = [pc EXCEPT ![t] = "idle"]
          ELSE /\ proc' = proc
               /\ pc' = [pc EXCEPT ![t] = IF arm[t].op = "toggle"
                                              THEN "arm_toggle"
                                              ELSE "arm_save"]
    /\ UNCHANGED <<rvars, dvars, arm, nhandled, w_p, h_seen, workers, qvars, evt_id, w_idx, ret_pc, id_p, ncalls,
                   nsent, hvars, fsmvars, timers, svc, ntcalls, nexp,
                   h_call, h_quiet, h_svc>>

\* toggle_timer: if (0 != timer_p->tick_ms) set_timer_p(timer_p, 0).
toggle_timer_test(t) ==
    /\ pc[t] = "arm_toggle"
    /\ proc = "running"
    /\ pc' = [pc EXCEPT ![t] = IF timers[arm[t].timer_p].tick_ms # 0
                                   THEN "arm_save" ELSE "arm_toggle_old"]
    /\ arm' = [arm EXCEPT ![t].tick_ms = 0]
    /\ UNCHANGED <<rvars, dvars, t_mutex, nhandled, w_p, h_seen, workers, qvars, evt_id, w_idx, ret_pc, id_p,
                   ncalls, nsent, hvars, fsmvars, timers, proc, svc, ntcalls,
                   nexp, h_call, h_quiet, h_svc>>

\* toggle_timer: else set_timer_p(timer_p, timer_p->old_tick_ms).
toggle_timer_old(t) ==
    /\ pc[t] = "arm_toggle_old"
    /\ proc = "running"
    /\ arm' = [arm EXCEPT ![t].tick_ms = timers[arm[t].timer_p].old_tick_ms]
    /\ pc' = [pc EXCEPT ![t] = "arm_save"]
    /\ UNCHANGED <<rvars, dvars, t_mutex, nhandled, w_p, h_seen, workers, qvars, evt_id, w_idx, ret_pc, id_p,
                   ncalls, nsent, hvars, fsmvars, timers, proc, svc, ntcalls,
                   nexp, h_call, h_quiet, h_svc>>

\* set_timer_p: timer_p->old_tick_ms = timer_p->tick_ms.
set_timer_p_save(t) ==
    /\ pc[t] = "arm_save"
    /\ proc = "running"
    /\ timers' = [timers EXCEPT ![arm[t].timer_p].old_tick_ms =
                                     timers[arm[t].timer_p].tick_ms]
    /\ pc' = [pc EXCEPT ![t] = "arm_store"]
    /\ UNCHANGED <<lvars, workers, qvars, evt_id, w_idx, ret_pc, id_p,
                   ncalls, nsent, hvars, fsmvars, proc, svc, ntcalls, nexp,
                   h_call, h_quiet, h_svc>>

\* set_timer_p: timer_p->tick_ms = tick_ms.
set_timer_p_store(t) ==
    /\ pc[t] = "arm_store"
    /\ proc = "running"
    /\ timers' = [timers EXCEPT ![arm[t].timer_p].tick_ms = arm[t].tick_ms]
    /\ pc' = [pc EXCEPT ![t] = "arm_settime"]
    /\ UNCHANGED <<lvars, workers, qvars, evt_id, w_idx, ret_pc, id_p,
                   ncalls, nsent, hvars, fsmvars, proc, svc, ntcalls, nexp,
                   h_call, h_quiet, h_svc>>

\* set_timer_p: timerfd_settime(timer_p->fd, 0, &ts, NULL) with the local
\* ts made of the argument tick_ms, and the return to the caller.
set_timer_p_settime(t) ==
    /\ pc[t] = "arm_settime"
    /\ proc = "running"
    /\ timers' = [timers EXCEPT
                    ![arm[t].timer_p].value = timespec(arm[t].tick_ms),
                    ![arm[t].timer_p].interval = timespec(arm[t].tick_ms),
                    ![arm[t].timer_p].expirations = 0]
    /\ pc' = [pc EXCEPT ![t] = "idle"]
    /\ UNCHANGED <<lvars, workers, qvars, evt_id, w_idx, ret_pc, id_p,
                   ncalls, nsent, hvars, fsmvars, proc, svc, ntcalls, nexp,
                   h_call, h_quiet, h_svc>>

\* The service thread's find_timer_by_pollfd(events[i].data.fd):
\* pthread_mutex_lock(&timer_list.mutex) and the scan of the list.
find_timer_by_pollfd_lock ==
    /\ pc[SvcThread] = "svc_lookup"
    /\ proc = "running"
    /\ t_mutex = NoThread
    /\ t_mutex' = SvcThread
    /\ svc' = [svc EXCEPT
                 !.timer_p = find_timer_by_pollfd(timers, svc.events[svc.i])]
    /\ h_svc' = [h_svc EXCEPT !.reports = @ + 1]
    /\ pc' = [pc EXCEPT ![SvcThread] = "svc_unlock"]
    /\ UNCHANGED <<rvars, dvars, arm, nhandled, w_p, h_seen, workers, qvars, evt_id, w_idx, ret_pc, id_p, ncalls,
                   nsent, hvars, fsmvars, timers, proc, ntcalls, nexp,
                   h_call, h_quiet>>

\* Mutant of find_timer_by_pollfd_unlock: the service thread goes on to the
\* read and the broadcast with timer_list.mutex locked.
find_timer_by_pollfd_locked ==
    /\ pc[SvcThread] = "svc_unlock"
    /\ proc = "running"
    /\ pc' = [pc EXCEPT ![SvcThread] = "svc_read"]
    /\ UNCHANGED <<lvars, workers, qvars, evt_id, w_idx, ret_pc, id_p, ncalls,
                   nsent, hvars, fsmvars, timers, proc, svc, ntcalls, nexp,
                   h_call, h_quiet, h_svc>>

\* find_timer_by_pollfd: pthread_mutex_unlock and the return; the service
\* dies when the descriptor is not in the list.
find_timer_by_pollfd_unlock ==
    /\ pc[SvcThread] = "svc_unlock"
    /\ proc = "running"
    /\ t_mutex = SvcThread
    /\ t_mutex' = NoThread
    /\ IF svc.timer_p # NoTimerP
          THEN /\ pc' = [pc EXCEPT ![SvcThread] = "svc_read"]
               /\ proc' = proc
          ELSE /\ proc' = "aborted"
               /\ pc' = pc
    /\ UNCHANGED <<rvars, dvars, arm, nhandled, w_p, h_seen, workers, qvars, evt_id, w_idx, ret_pc, id_p, ncalls,
                   nsent, hvars, fsmvars, timers, svc, ntcalls, nexp,
                   h_call, h_quiet, h_svc>>

\* The two timers exist (stoplight_init_enter), the light timer is set to
\* its period (green_enter) and the blink timer was not set yet; the service
\* thread polls.
InitArm ==
    \E o \in MallocValues :
        InitState([t \in Threads |->
                      IF t = SvcThread THEN "svc_poll" ELSE "idle"],
                  [w \in WorkerIds |-> FsmOf(w)],
                  set_timer_p(
                      create_timer(
                          create_timer([id \in TimerIds |-> NoTimer],
                                       TID_LIGHT, E_LIGHT, 0),
                          TID_BLINK, E_BLINK, o),
                      TID_LIGHT, t_norm))

\* Concurrent arming: two threads call set_timer and toggle_timer while the
\* timers expire.
NextArm ==
    \/ \E t \in ArmThreads : call_arm(t)
    \/ \E t \in ArmThreads : find_timer_by_id_lock(t)
    \/ \E t \in ArmThreads : find_timer_by_id_unlock(t)
    \/ \E t \in ArmThreads : toggle_timer_test(t)
    \/ \E t \in ArmThreads : toggle_timer_old(t)
    \/ \E t \in ArmThreads : set_timer_p_save(t)
    \/ \E t \in ArmThreads : set_timer_p_store(t)
    \/ \E t \in ArmThreads : set_timer_p_settime(t)
    \/ \E id \in TimerIds : timer_expire(id)

SpecArm == InitArm /\ [][NextArm]_vars

\* Bound: number of set_timer and toggle_timer calls while the service runs.
MaxLockCalls == 1

\* A call of set_timer or toggle_timer while the service runs.
lock_call_arm(t) ==
    /\ ntcalls < MaxLockCalls
    /\ call_arm(t)

\* Bound: number of timer expiries while the service runs and a thread arms.
MaxLockExpire == 1

\* A timer expires.
lock_timer_expire(id) ==
    /\ nexp < MaxLockExpire
    /\ timer_expire(id)

\* The users of the two kinds of mutex together: the worker arms when it is
\* in an action of its FSM and dequeues when it is not, the timers expire,
\* the service thread looks the timer up and broadcasts.
NextLock ==
    \/ lock_call_arm(ArmConsumer)
    \/ find_timer_by_id_lock(ArmConsumer)
    \/ find_timer_by_id_unlock(ArmConsumer)
    \/ toggle_timer_test(ArmConsumer)
    \/ toggle_timer_old(ArmConsumer)
    \/ set_timer_p_save(ArmConsumer)
    \/ set_timer_p_store(ArmConsumer)
    \/ set_timer_p_settime(ArmConsumer)
    \/ \E id \in TimerIds : lock_timer_expire(id)
    \/ svc_poll
    \/ find_timer_by_pollfd_lock
    \/ find_timer_by_pollfd_unlock
    \/ svc_read
    \/ svc_bcast
    \/ Push(SvcThread)
    \/ svc_next
    \/ call_pop(ArmConsumer)
    \/ Pop(ArmConsumer)

SpecLock == InitArm /\ [][NextLock]_vars

(***************************************************************************)
(* Properties of concurrent arming and of the locks.                       *)
(***************************************************************************)

\* Thread t is inside a set_timer or toggle_timer call on timer id.
Arming(t, id) == pc[t] \in ArmLabels /\ arm[t].timerid = id

\* C23: set_timer and toggle_timer are serialised by the registry mutex, so
\* when the calls on a timer have returned, the period stored in tick_ms is
\* the period the kernel timer is armed with.
C23_ArmedIsCurrent ==
    \A id \in TimerIds :
        (timers[id].exists /\ \A t \in ArmThreads : ~Arming(t, id))
            => timers[id].interval = timespec(timers[id].tick_ms)

\* C23 witness: two calls on the same timer have returned; the period
\* stored in tick_ms is not the period the kernel timer is armed with, which
\* no sequential order of the two calls produces.
C23_Witness ==
    /\ ntcalls = 2
    /\ \A t \in ArmThreads : pc[t] = "idle" /\ arm[t].op # "none"
    /\ arm["main"].timerid = arm["crosswalk"].timerid
    /\ timers[arm["main"].timerid].interval
          # timespec(timers[arm["main"].timerid].tick_ms)

\* The number of mutexes thread t owns.
Held(t) ==
    (IF t_mutex = t THEN 1 ELSE 0) + Cardinality({w \in WorkerIds : q_mutex[w] = t})

\* Thread t is at a pthread_mutex_lock, or about to get the mutex back in
\* pthread_cond_wait.
Acquiring(t) ==
    pc[t] \in {"arm_lock", "svc_lookup", "push_lock", "pop_lock", "pop_wake"}

\* C24: no thread owns the registry mutex while it acquires a queue mutex,
\* nor a queue mutex while it acquires the registry mutex or another queue
\* mutex: a thread that acquires a mutex owns none, and no thread ever owns
\* two.  The service thread has released the registry mutex when it
\* broadcasts.
C24_LockDiscipline ==
    /\ \A t \in Threads : Held(t) <= 1
    /\ \A t \in Threads : Acquiring(t) => Held(t) = 0
    /\ pc[SvcThread] \in {"svc_read", "svc_bcast", "push_lock", "push_append",
                          "push_signal", "push_unlock"}
           => t_mutex # SvcThread

\* C24 witness: the service thread, past its lookup, is about to lock the
\* queue of a worker while that worker is about to lock the registry mutex
\* in set_timer, and nobody owns a mutex.
C24_Witness ==
    /\ pc[SvcThread] = "push_lock"
    /\ h_svc.reports > 0
    /\ pc[ArmConsumer] = "arm_lock"
    /\ QueueOf(SvcThread) = ArmConsumer
    /\ \A t \in Threads : Held(t) = 0

(***************************************************************************)
(* The program: the task of a worker takes an event from its queue and     *)
(* gives it to fsm_run, again and again; the main thread broadcasts the    *)
(* events of the command line and joins the workers after E_DONE.          *)
(***************************************************************************)

\* The worker's task calls evtq_pop: every event taken was given to fsm_run.
task_pop(w) ==
    /\ pc[w] = "idle"
    /\ proc = "running"
    /\ Len(dequeued[w]) = nhandled[w]
    /\ pc' = [pc EXCEPT ![w] = "pop_lock"]
    /\ UNCHANGED <<tvars, workers, qvars, evt_id, w_idx, ret_pc, id_p, ncalls,
                   nsent, hvars, fvars>>

\* The worker's task calls fsm_run with the event evtq_pop returned.
task_fsm_run(w) ==
    /\ pc[w] = "idle"
    /\ proc = "running"
    /\ Len(dequeued[w]) > nhandled[w]
    /\ nhandled' = [nhandled EXCEPT ![w] = @ + 1]
    /\ fsm_run(w, id_p[w])
    /\ UNCHANGED <<rvars, dvars, workers, qvars, evt_id, w_idx, ret_pc, id_p, ncalls, nsent,
                   hvars, fsm, timers, proc, nruns, svc, ntcalls, nexp,
                   h_call, h_quiet, h_svc, t_mutex, arm, w_p, h_seen>>

\* Bound: number of E_DONE broadcasts before the main thread joins.
MaxDone == 2

\* The command 'x' (or 'e8') of the command line and the broadcast of the
\* main thread before it joins: workers_evt_broadcast(E_DONE).
call_broadcast_done(t) ==
    /\ pc[t] = "idle"
    /\ proc = "running"
    /\ ncalls < MaxDone
    /\ ncalls' = ncalls + 1
    /\ workers_evt_broadcast(t, E_DONE, "idle")
    /\ UNCHANGED <<tvars, workers, qvars, id_p, appended, dequeued, fvars>>

\* join_workers is called when the last E_DONE was broadcast.
call_join_workers(t) ==
    /\ pc[t] = "idle"
    /\ proc = "running"
    /\ ncalls = MaxDone
    /\ w_idx' = [w_idx EXCEPT ![t] = 1]
    /\ pc' = [pc EXCEPT ![t] = IF Len(workers) = 0 THEN "joined" ELSE "join"]
    /\ UNCHANGED <<tvars, workers, qvars, evt_id, ret_pc, id_p, ncalls, nsent,
                   hvars, fvars>>

\* join_workers: pthread_join(w_p->worker_id, NULL) returns when the thread
\* of the worker has ended; then the next worker of the list.
join_workers_next(t) ==
    /\ pc[t] = "join"
    /\ proc = "running"
    /\ pc[workers[w_idx[t]]] = "exited"
    /\ IF w_idx[t] < Len(workers)
          THEN /\ w_idx' = [w_idx EXCEPT ![t] = @ + 1]
               /\ pc' = pc
          ELSE /\ pc' = [pc EXCEPT ![t] = "joined"]
               /\ w_idx' = w_idx
    /\ UNCHANGED <<tvars, workers, qvars, evt_id, ret_pc, id_p, ncalls, nsent,
                   hvars, fvars>>

\* The states a worker is in while the lights run.
RunningStates(w) ==
    IF w = "stoplight" THEN {"s_green", "s_yellow", "s_red", "s_green_but"}
                       ELSE {"s_nowalk", "s_walk", "s_blink"}

\* The table of worker w when its current state is s: fsm_run has written s
\* into the currst_p of the first row.
FsmAt(w, s) == [FsmOf(w) EXCEPT ![1].currst_p = s]

\* The lights run: each worker is in one of its states and waits for the
\* next event, the two timers exist.
InitDone ==
    \E s1 \in RunningStates("stoplight"), s2 \in RunningStates("crosswalk") :
        InitState([t \in Threads |-> "idle"],
                  [w \in WorkerIds |-> FsmAt(w, IF w = "stoplight"
                                                   THEN s1 ELSE s2)],
                  create_timer(
                      create_timer([id \in TimerIds |-> NoTimer],
                                   TID_LIGHT, E_LIGHT, 0),
                      TID_BLINK, E_BLINK, 0))

\* Shutdown: the main thread broadcasts E_DONE, and once more, and joins the
\* workers; each worker runs its task.
NextDone ==
    \/ call_broadcast_done("main")
    \/ Push("main")
    \/ call_join_workers("main")
    \/ join_workers_next("main")
    \/ \E w \in WorkerIds : task_pop(w)
    \/ \E w \in WorkerIds : Pop(w)
    \/ \E w \in WorkerIds : task_fsm_run(w)
    \/ \E w \in WorkerIds : fsm_run_next_state(w)
    \/ \E w \in WorkerIds : fsm_run_guard(w)
    \/ \E w \in WorkerIds : fsm_run_exit(w)
    \/ \E w \in WorkerIds : fsm_run_assign(w)
    \/ \E w \in WorkerIds : fsm_run_entry(w)
    \/ \E w \in WorkerIds : fsm_run_return(w)

SpecDone == InitDone /\ [][NextDone]_vars

(***************************************************************************)
(* Properties of the shutdown.                                             *)
(***************************************************************************)

\* Worker w waits in evtq_pop for an event and its queue is empty.
Starving(w) == pc[w] = "pop_wait" /\ q_len[w] = 0 /\ w \in q_cond[w]

\* C25: a second E_DONE is harmless and join_workers still returns: the
\* main thread is never in join_workers, every E_DONE broadcast, while a
\* worker it has to join waits for an event on an empty queue.
C25_JoinReturns ==
    (pc["main"] = "join" /\ proc = "running")
        => \A w \in WorkerIds : ~Starving(w)

\* C25 witness: both workers left on the first E_DONE; the second broadcast
\* returned, its event stays in the queue of each exited worker, and
\* join_workers returned.
C25_Witness ==
    /\ pc["main"] = "joined"
    /\ Cardinality(finished) = MaxDone
    /\ \A w \in WorkerIds :
          /\ pc[w] = "exited"
          /\ Len(dequeued[w]) = 1
          /\ q_len[w] = MaxDone - 1
          /\ \A i \in DOMAIN q_list[w] : q_list[w][i].event_id = E_DONE

(***************************************************************************)
(* The start of the program: the workers run fsm_init and their task, the  *)
(* command 'g' broadcasts E_INIT, the light timer expires and the timer    *)
(* service broadcasts its event.                                           *)
(***************************************************************************)

\* Bound: number of timer expiries after the start.
MaxBootExpire == 1

\* The command 'g' of the command line, once: workers_evt_broadcast(E_INIT).
call_broadcast_init(t) ==
    /\ pc[t] = "idle"
    /\ proc = "running"
    /\ nsent[t] = 0
    /\ workers_evt_broadcast(t, E_INIT, "idle")
    /\ UNCHANGED <<tvars, workers, qvars, id_p, ncalls, appended, dequeued,
                   fvars>>

\* A timer expires.
boot_timer_expire(id) ==
    /\ nexp < MaxBootExpire
    /\ timer_expire(id)

\* The workers are created and their threads begin; no timer exists.
InitBoot ==
    InitAt([t \in Threads |-> CASE t \in WorkerIds -> "start"
                                [] t = SvcThread -> "svc_poll"
                                [] OTHER -> "idle"])

NextBoot ==
    \/ call_broadcast_init("main")
    \/ \E t \in Threads : Push(t)
    \/ \E w \in WorkerIds : call_fsm_init(w)
    \/ \E w \in WorkerIds : task_pop(w)
    \/ \E w \in WorkerIds : Pop(w)
    \/ \E w \in WorkerIds : task_fsm_run(w)
    \/ \E w \in WorkerIds : fsm_run_next_state(w)
    \/ \E w \in WorkerIds : fsm_run_guard(w)
    \/ \E w \in WorkerIds : fsm_run_exit(w)
    \/ \E w \in WorkerIds : fsm_run_assign(w)
    \/ \E w \in WorkerIds : fsm_run_entry(w)
    \/ \E w \in WorkerIds : act_set_timer(w)
    \/ \E w \in WorkerIds : fsm_run_passed(w)
    \/ \E w \in WorkerIds : fsm_run_return(w)
    \/ \E id \in TimerIds : boot_timer_expire(id)
    \/ svc_poll
    \/ svc_lookup
    \/ svc_read
    \/ svc_bcast
    \/ svc_next

\* Every thread that can take a step is run in the end, the command is
\* given, and a timer that is armed expires.
SpecBoot == InitBoot /\ [][NextBoot]_vars /\ WF_vars(NextBoot)

(***************************************************************************)
(* Properties of the start.                                                *)
(***************************************************************************)

\* The stoplight has broadcast event e.
Sent(w, e) == \E n \in issued : n.event_id = e /\ n.tag[1] = w

\* C26: after E_INIT the stoplight is in S:GREEN in the end with the light
\* timer armed at t_norm and the crosswalk is in S:DONT_WALK in the end;
\* when the timer service has broadcast the expiry of the light timer, the
\* stoplight is in S:YELLOW in the end and has broadcast E_YELLOW.
C26_HappyBoot ==
    /\ <>(/\ CurrentState("stoplight") = "s_green"
          /\ ArmedWith(timers[TID_LIGHT], t_norm))
    /\ <>(CurrentState("crosswalk") = "s_nowalk")
    /\ (h_svc.bcasts # <<>>)
          ~> (/\ CurrentState("stoplight") = "s_yellow"
              /\ Sent("stoplight", E_YELLOW))

\* C26 witness: the start went well: the light timer expired, the stoplight
\* is in S:YELLOW and has broadcast E_YELLOW, the crosswalk is in
\* S:DONT_WALK, the process runs.
C26_Witness ==
    /\ proc = "running"
    /\ h_svc.bcasts # <<>>
    /\ CurrentState("stoplight") = "s_yellow"
    /\ Sent("stoplight", E_YELLOW)
    /\ ArmedWith(timers[TID_LIGHT], t_fast)
    /\ CurrentState("crosswalk") = "s_nowalk"

(***************************************************************************)
(* The creation of the workers (workers.h): the main thread calls          *)
(* worker_fsm_create and worker_list_add for each worker; the thread that  *)
(* pthread_create starts runs the entry function with the worker_t as its  *)
(* argument.                                                               *)
(***************************************************************************)

\* What the field fsm_p of a worker_t holds when malloc returns: the memory
\* is not initialised, it holds a null pointer or what was there before.
Garbage == {NULL, "stale"}

\* The worker_t of a worker that is not created yet.
NotCreated == [stage |-> "none", fsm_p |-> NULL]

\* worker_fsm_create is called for w: malloc and strncpy of the name.
worker_fsm_create_malloc(w) ==
    /\ pc["main"] = "idle"
    /\ proc = "running"
    /\ w_p[w].stage = "none"
    /\ \A v \in WorkerIds : w_p[v].stage \in {"none", "listed"}
    /\ \E g \in Garbage : w_p' = [w_p EXCEPT ![w] = [stage |-> "malloc",
                                                     fsm_p |-> g]]
    /\ pc' = [pc EXCEPT !["main"] = "create"]
    /\ UNCHANGED <<rvars, dvars, t_mutex, arm, nhandled, h_seen, workers, qvars, evt_id,
                   w_idx, ret_pc, id_p, ncalls, nsent, hvars, fvars, svc,
                   ntcalls, nexp, h_call, h_quiet, h_svc>>

\* Mutant of worker_fsm_create_store: the field is not written before the
\* thread is started.
worker_fsm_create_store_late(w) ==
    /\ pc["main"] = "create"
    /\ proc = "running"
    /\ w_p[w].stage = "malloc"
    /\ w_p' = [w_p EXCEPT ![w].stage = "fsm"]
    /\ UNCHANGED <<rvars, dvars, t_mutex, arm, nhandled, h_seen, workers, qvars, pc, evt_id,
                   w_idx, ret_pc, id_p, ncalls, nsent, hvars, fvars, svc,
                   ntcalls, nexp, h_call, h_quiet, h_svc>>

\* w_p->fsm_p = fsm_p
worker_fsm_create_store(w) ==
    /\ pc["main"] = "create"
    /\ proc = "running"
    /\ w_p[w].stage = "malloc"
    /\ w_p' = [w_p EXCEPT ![w].stage = "fsm", ![w].fsm_p = FsmName(w)]
    /\ UNCHANGED <<rvars, dvars, t_mutex, arm, nhandled, h_seen, workers, qvars, pc, evt_id,
                   w_idx, ret_pc, id_p, ncalls, nsent, hvars, fvars, svc,
                   ntcalls, nexp, h_call, h_quiet, h_svc>>

\* w_p->evtq_p = evtq_create()
worker_fsm_create_evtq(w) ==
    /\ pc["main"] = "create"
    /\ proc = "running"
    /\ w_p[w].stage = "fsm"
    /\ w_p' = [w_p EXCEPT ![w].stage = "evtq"]
    /\ q_list' = [q_list EXCEPT ![w] = evtq_create.list]
    /\ q_len' = [q_len EXCEPT ![w] = evtq_create.len]
    /\ q_mutex' = [q_mutex EXCEPT ![w] = evtq_create.mutex]
    /\ q_cond' = [q_cond EXCEPT ![w] = evtq_create.cond]
    /\ UNCHANGED <<rvars, dvars, t_mutex, arm, nhandled, h_seen, workers, pc, evt_id,
                   w_idx, ret_pc, id_p, ncalls, nsent, hvars, fvars, svc,
                   ntcalls, nexp, h_call, h_quiet, h_svc>>

\* pthread_create(&w_p->worker_id, NULL, startfn_p, (void *)w_p): the thread
\* of the worker exists from here on; worker_fsm_create returns.
worker_fsm_create_spawn(w) ==
    /\ pc["main"] = "create"
    /\ proc = "running"
    /\ w_p[w].stage = "evtq"
    /\ w_p' = [w_p EXCEPT ![w].stage = "spawned"]
    /\ pc' = [pc EXCEPT ![w] = "begin"]
    /\ UNCHANGED <<rvars, dvars, t_mutex, arm, nhandled, h_seen, workers, qvars, evt_id,
                   w_idx, ret_pc, id_p, ncalls, nsent, hvars, fvars, svc,
                   ntcalls, nexp, h_call, h_quiet, h_svc>>

\* worker_list_add(w_p): nl_list_add_tail to the registry.
worker_list_add(w) ==
    /\ pc["main"] = "create"
    /\ proc = "running"
    /\ w_p[w].stage = "spawned"
    /\ w_p' = [w_p EXCEPT ![w].stage = "listed"]
    /\ workers' = Append(workers, w)
    /\ pc' = [pc EXCEPT !["main"] = "idle"]
    /\ UNCHANGED <<rvars, dvars, t_mutex, arm, nhandled, h_seen, qvars, evt_id,
                   w_idx, ret_pc, id_p, ncalls, nsent, hvars, fvars, svc,
                   ntcalls, nexp, h_call, h_quiet, h_svc>>

\* The entry function of the thread takes the fsm_p of the worker_t it was
\* given as its argument.
task_begin(w) ==
    /\ pc[w] = "begin"
    /\ proc = "running"
    /\ h_seen' = [h_seen EXCEPT ![w] = w_p[w].fsm_p]
    /\ pc' = [pc EXCEPT ![w] = "start"]
    /\ UNCHANGED <<rvars, dvars, t_mutex, arm, nhandled, w_p, workers, qvars, evt_id,
                   w_idx, ret_pc, id_p, ncalls, nsent, hvars, fvars, svc,
                   ntcalls, nexp, h_call, h_quiet, h_svc>>

\* Nothing is created: the registry is empty, no worker thread exists.
InitCreate ==
    InitFull([t \in Threads |-> CASE t \in WorkerIds -> "unborn"
                                  [] t = SvcThread -> "svc_poll"
                                  [] OTHER -> "idle"],
             [w \in WorkerIds |-> FsmOf(w)],
             [id \in TimerIds |-> NoTimer],
             <<>>,
             [w \in WorkerIds |-> NotCreated],
             NoDemo)

\* The command 'g', given when the workers are created.
create_broadcast_init(t) ==
    /\ \A w \in WorkerIds : w_p[w].stage = "listed"
    /\ call_broadcast_init(t)

\* The main thread creates the workers, in either order, and broadcasts
\* E_INIT; each thread begins, runs fsm_init and takes its first event.
NextCreate ==
    \/ create_broadcast_init("main")
    \/ Push("main")
    \/ \E w \in WorkerIds : worker_fsm_create_malloc(w)
    \/ \E w \in WorkerIds : worker_fsm_create_store(w)
    \/ \E w \in WorkerIds : worker_fsm_create_evtq(w)
    \/ \E w \in WorkerIds : worker_fsm_create_spawn(w)
    \/ \E w \in WorkerIds : worker_list_add(w)
    \/ \E w \in WorkerIds : task_begin(w)
    \/ \E w \in WorkerIds : call_fsm_init(w)
    \/ \E w \in WorkerIds : task_pop(w)
    \/ \E w \in WorkerIds : Pop(w)

SpecCreate == InitCreate /\ [][NextCreate]_vars

\* C27: worker_fsm_create stores the FSM reference in the worker before it
\* starts the thread: the thread of a worker that has begun has found the
\* table the worker was created with in its worker_t, never a null pointer
\* or what the memory held before, and no thread exists while the field is
\* not written.
C27_FsmBeforeThread ==
    \A w \in WorkerIds :
        /\ pc[w] # "unborn" => w_p[w].fsm_p = FsmName(w)
        /\ pc[w] \notin {"unborn", "begin"} => h_seen[w] = FsmName(w)

\* C27 witness: the thread of the stoplight has begun and found FSM1 in its
\* worker_t while the main thread has not yet added the worker to the
\* registry nor created the crosswalk.
C27_Witness ==
    /\ w_p["stoplight"].stage = "spawned"
    /\ h_seen["stoplight"] = "FSM1"
    /\ pc["stoplight"] = "start"
    /\ w_p["crosswalk"].stage = "none"

(***************************************************************************)
(* Properties of fsm_init.                                                 *)
(***************************************************************************)

\* The initial state of worker w: the from_state of the first row of its
\* table as declared.
InitialState(w) == FsmOf(w)[1].currst_p

\* Worker w has run fsm_init and has not called fsm_run yet.
Initialised(w) == pc[w] = "idle" /\ run_evt[w] = E_BAD

\* C28: fsm_init runs the entry action of the initial state exactly once,
\* runs no exit action and leaves the current state equal to the initial
\* state; before fsm_init no action was run.
C28_InitRunsEntryOnce ==
    \A w \in WorkerIds :
        /\ pc[w] = "start" => h_log[w] = <<>>
        /\ Initialised(w)
              => /\ h_log[w] = << <<"entry", InitialState(w)>> >>
                 /\ CurrentState(w) = InitialState(w)

\* C28 witness: the stoplight has run fsm_init: stoplight_init_enter was
\* called, which created the two timers, and the state is still S:INIT.
C28_Witness ==
    /\ Initialised("stoplight")
    /\ State(CurrentState("stoplight")).entry_action = "stoplight_init_enter"
    /\ h_log["stoplight"] = << <<"entry", "s_stoplight_init">> >>
    /\ \A id \in TimerIds : timers[id].exists

(***************************************************************************)
(* evtdemo.c, the producer/consumer program.  It has its own copies of the *)
(* queue functions; the main thread is the producer, the consumer thread   *)
(* owns evtq_pp[0] and the timer thread evtq_pp[1].  evtq_push and         *)
(* evtq_pop are critical sections of the queue mutex and are taken as one  *)
(* step each.                                                              *)
(***************************************************************************)

\* enum of the events of evtdemo.c
EVT_BAD   == 0
EVT_TIMER == 1
EVT_IDLE  == 2
EVT_DONE  == 3
EVT_LAST  == 4

\* Bound: number of commands the producer carries out.
MaxDemoCmds == 2

\* Bound: number of expiries of the periodic timer.
MaxDemoExpire == 2

\* The variables of the other programs.
progvars == <<workers, qvars, pc, evt_id, w_idx, ret_pc, id_p, ncalls, nsent,
              hvars, fvars, svc, ntcalls, nexp, h_call, h_quiet, h_svc,
              t_mutex, arm, nhandled, w_p, h_seen, rvars>>

\* The commands of evt_ondemand that push an event, and the event.
DemoCmds == {"q", "x", "i", "t"}
DemoEvt(c) == CASE c \in {"q", "x"} -> EVT_DONE
                [] c = "i" -> EVT_IDLE
                [] c = "t" -> EVT_TIMER

\* evtq_push(evtq_pp[i], id) of evtdemo.c
demo_evtq_push(q, i, id) == [q EXCEPT ![i] = Append(@, id)]

\* evtq_pop(evtq_pp[i], &evt_id): the queue without its head; the caller
\* has the head as evt_id.  It blocks while the queue is empty.
demo_evtq_pop(q, i) == [q EXCEPT ![i] = Tail(@)]

\* evtq_len(evtq_pp[i])
demo_evtq_len(q, i) == Len(q[i])

\* main: both queues and both threads are created; evt_producer or
\* evt_script runs and the timer thread has set its timer.
InitDemo ==
    InitFull([t \in Threads |-> "idle"], [w \in WorkerIds |-> FsmOf(w)],
             [id \in TimerIds |-> NoTimer], WorkerList,
             [w \in WorkerIds |-> Created(w)],
             [t \in DemoThreads |-> CASE t = "main" -> "producer"
                                      [] t = "consumer" -> "pop"
                                      [] t = "timer" -> "poll"])

\* evt_ondemand(c, evtq_pp) for a command that pushes: evtq_push_all begins
\* with evtq_push(evtq_pp[0], id).
evt_ondemand(c) ==
    /\ d_pc["main"] = "producer"
    /\ d_nprod < MaxDemoCmds
    /\ d_nprod' = d_nprod + 1
    /\ d_cmd' = c
    /\ d_q' = demo_evtq_push(d_q, 1, DemoEvt(c))
    /\ d_pc' = [d_pc EXCEPT !["main"] = "push_all"]
    /\ UNCHANGED <<progvars, d_exp, d_nexp, h_done>>

\* evtq_push_all: evtq_push(evtq_pp[1], id); 'x' sets event_loop_done, which
\* ends evt_producer (evt_script goes on to the end of the file).
evtq_push_all_second ==
    /\ d_pc["main"] = "push_all"
    /\ d_q' = demo_evtq_push(d_q, 2, DemoEvt(d_cmd))
    /\ h_done' = (h_done \/ DemoEvt(d_cmd) = EVT_DONE)
    /\ \E non_interactive \in BOOLEAN :
          d_pc' = [d_pc EXCEPT !["main"] =
                      IF d_cmd = "x" /\ ~non_interactive
                         THEN "done0" ELSE "producer"]
    /\ UNCHANGED <<progvars, d_cmd, d_exp, d_nexp, d_nprod>>

\* evt_producer returns without 'x' (SIGINT sets event_loop_done), or
\* evt_script reaches the end of its file.
evt_producer_return ==
    /\ d_pc["main"] = "producer"
    /\ d_pc' = [d_pc EXCEPT !["main"] = "done0"]
    /\ UNCHANGED <<progvars, d_q, d_cmd, d_exp, d_nexp, d_nprod, h_done>>

\* main: evtq_push(evtq_pp[0], EVT_DONE)
main_push_done_consumer ==
    /\ d_pc["main"] = "done0"
    /\ d_q' = demo_evtq_push(d_q, 1, EVT_DONE)
    /\ d_pc' = [d_pc EXCEPT !["main"] = "done1"]
    /\ UNCHANGED <<progvars, d_cmd, d_exp, d_nexp, d_nprod, h_done>>

\* main: evtq_push(evtq_pp[1], EVT_DONE)
main_push_done_timer ==
    /\ d_pc["main"] = "done1"
    /\ d_q' = demo_evtq_push(d_q, 2, EVT_DONE)
    /\ h_done' = TRUE
    /\ d_pc' = [d_pc EXCEPT !["main"] = "join0"]
    /\ UNCHANGED <<progvars, d_cmd, d_exp, d_nexp, d_nprod>>

\* main: pthread_join(task[0], NULL)
main_join_consumer ==
    /\ d_pc["main"] = "join0"
    /\ d_pc["consumer"] = "exit"
    /\ d_pc' = [d_pc EXCEPT !["main"] = "join1"]
    /\ UNCHANGED <<progvars, d_q, d_cmd, d_exp, d_nexp, d_nprod, h_done>>

\* main: pthread_join(task[1], NULL); the cleanup follows.
main_join_timer ==
    /\ d_pc["main"] = "join1"
    /\ d_pc["timer"] = "exit"
    /\ d_pc' = [d_pc EXCEPT !["main"] = "cleanup"]
    /\ UNCHANGED <<progvars, d_q, d_cmd, d_exp, d_nexp, d_nprod, h_done>>

\* evt_consumer: evtq_pop(evtq_me, &evt_id) and the switch: EVT_DONE ends
\* the loop, EVT_IDLE naps, the rest is dropped.
evt_consumer ==
    /\ d_pc["consumer"] = "pop"
    /\ demo_evtq_len(d_q, 1) > 0
    /\ d_q' = demo_evtq_pop(d_q, 1)
    /\ d_pc' = [d_pc EXCEPT !["consumer"] =
                   IF Head(d_q[1]) = EVT_DONE THEN "exit" ELSE "pop"]
    /\ UNCHANGED <<progvars, d_cmd, d_exp, d_nexp, d_nprod, h_done>>

\* The periodic timer of the timer thread expires.
demo_timer_expire ==
    /\ d_pc["timer"] # "exit"
    /\ d_nexp < MaxDemoExpire
    /\ d_nexp' = d_nexp + 1
    /\ d_exp' = d_exp + 1
    /\ UNCHANGED <<progvars, d_pc, d_q, d_cmd, d_nprod, h_done>>

\* evt_timer: epoll_wait reports the timerfd; read(fd_timer, &res, ...).
evt_timer_read ==
    /\ d_pc["timer"] = "poll"
    /\ d_exp > 0
    /\ d_exp' = 0
    /\ d_pc' = [d_pc EXCEPT !["timer"] = "push"]
    /\ UNCHANGED <<progvars, d_q, d_cmd, d_nexp, d_nprod, h_done>>

\* evt_timer: evtq_push(evtq_pp[0], EVT_TIMER)
evt_timer_push ==
    /\ d_pc["timer"] = "push"
    /\ d_q' = demo_evtq_push(d_q, 1, EVT_TIMER)
    /\ d_pc' = [d_pc EXCEPT !["timer"] = "poll"]
    /\ UNCHANGED <<progvars, d_cmd, d_exp, d_nexp, d_nprod, h_done>>

\* Mutant of evt_timer_timeout: EVT_DONE is dropped like EVT_TIMER.
evt_timer_timeout_drop ==
    /\ d_pc["timer"] = "poll"
    /\ d_exp = 0
    /\ demo_evtq_len(d_q, 2) > 0
    /\ d_q' = demo_evtq_pop(d_q, 2)
    /\ UNCHANGED <<progvars, d_pc, d_cmd, d_exp, d_nexp, d_nprod, h_done>>

\* evt_timer: epoll_wait times out after 200 ms without an expiry (case 0):
\* if the queue is not empty one event is taken; EVT_DONE ends the loop.
\* With an empty queue the thread polls again.
evt_timer_timeout ==
    /\ d_pc["timer"] = "poll"
    /\ d_exp = 0
    /\ demo_evtq_len(d_q, 2) > 0
    /\ d_q' = demo_evtq_pop(d_q, 2)
    /\ d_pc' = [d_pc EXCEPT !["timer"] =
                   IF Head(d_q[2]) = EVT_DONE THEN "exit" ELSE "poll"]
    /\ UNCHANGED <<progvars, d_cmd, d_exp, d_nexp, d_nprod, h_done>>

NextDemo ==
    \/ \E c \in DemoCmds : evt_ondemand(c)
    \/ evtq_push_all_second
    \/ evt_producer_return
    \/ main_push_done_consumer
    \/ main_push_done_timer
    \/ main_join_consumer
    \/ main_join_timer
    \/ evt_consumer
    \/ demo_timer_expire
    \/ evt_timer_read
    \/ evt_timer_push
    \/ evt_timer_timeout

\* The scheduler runs every thread that can take a step.  Nothing obliges
\* the user to give a command or to end the producer, which the main thread
\* leaves on 'x', on SIGINT or at the end of the script; once it has left,
\* the main thread goes on.  The timer period (1000 ms) is longer than the
\* poll timeout (200 ms), so the poll of the timer thread times out again
\* and again.
DemoFairness ==
    /\ WF_vars(evtq_push_all_second)
    /\ WF_vars(main_push_done_consumer \/ main_push_done_timer)
    /\ WF_vars(main_join_consumer \/ main_join_timer)
    /\ WF_vars(evt_consumer)
    /\ WF_vars(evt_timer_read \/ evt_timer_push)
    /\ WF_vars(evt_timer_timeout)

SpecDemo == InitDemo /\ [][NextDemo]_vars /\ DemoFairness

\* C29: once EVT_DONE was pushed to both queues, the consumer thread and
\* the timer thread leave their loops in the end, and when the main thread
\* has pushed its own EVT_DONE it joins both threads in the end.
C29_DoneEndsThreads ==
    /\ h_done ~> (d_pc["consumer"] = "exit" /\ d_pc["timer"] = "exit")
    /\ (d_pc["main"] = "join0") ~> (d_pc["main"] = "cleanup")

\* C29 witness: the main thread has joined both threads; the timer thread
\* had pushed EVT_TIMER after an expiry and taken an EVT_IDLE from its
\* queue before EVT_DONE, and the second EVT_DONE is left in its queue.
C29_Witness ==
    /\ d_pc["main"] = "cleanup"
    /\ d_pc["consumer"] = "exit"
    /\ d_pc["timer"] = "exit"
    /\ d_nexp > 0
    /\ d_exp = 0
    /\ d_nprod = MaxDemoCmds
    /\ d_q[2] = <<EVT_DONE>>

\* C30: the scan of next_state ends inside the table: when next_state has
\* returned in a call of fsm_run, the scan had stopped at a declared row of
\* FSM1 or FSM2, and when it returned "no match" that row is a terminator
\* row (null currst_p).
C30_ScanEndsInTable ==
    \A w \in WorkerIds :
        pc[w] = "run_guard" =>
            /\ h_row[w] \in DOMAIN fsm[w]
            /\ nextst_p[w] = NULL => fsm[w][h_row[w]].currst_p = NULL

\* C30 witness: the crosswalk in S:DONT_WALK was given E_GREEN, no declared
\* row of FSM2 matched, the memory behind the table held a null currst_p
\* and fsm_run is about to return -1.
C30_Witness ==
    /\ pc["crosswalk"] = "run_ret"
    /\ h_from["crosswalk"] = "s_nowalk"
    /\ run_evt["crosswalk"] = E_GREEN
    /\ h_row["crosswalk"] = 0
    /\ nextst_p["crosswalk"] = NULL
    /\ ret["crosswalk"] = -1

\* C31: the first row of a table matches only in the initial state: when
\* fsm_run returns from a call for E_INIT that was made in a state other
\* than the initial state of the table, no row had matched, the current
\* state is the state the call began in and no action was run.
C31_InitOnlyFromInitial ==
    \A w \in WorkerIds :
        (/\ pc[w] = "run_ret"
         /\ run_evt[w] = E_INIT
         /\ h_from[w] # InitialState(w)) =>
            /\ nextst_p[w] = NULL
            /\ ret[w] = -1
            /\ CurrentState(w) = h_from[w]
            /\ h_log[w] = <<>>

\* C31 witness: the stoplight in S:YELLOW was given another E_INIT; the
\* scan stopped at the first row of FSM1, the exit action of S:YELLOW and
\* the entry action of S:GREEN were run, and the stoplight is in S:GREEN
\* again.
C31_Witness ==
    /\ pc["stoplight"] = "run_ret"
    /\ run_evt["stoplight"] = E_INIT
    /\ h_from["stoplight"] = "s_yellow"
    /\ h_row["stoplight"] = 1
    /\ CurrentState("stoplight") = "s_green"
    /\ ret["stoplight"] = 0
    /\ h_log["stoplight"] = << <<"exit", "s_yellow">>, <<"assign", "s_green">>,
                               <<"entry", "s_green">> >>

(***************************************************************************)
(* create_timer in steps: the test for an existing timer is one critical   *)
(* section of timer_list.mutex (find_timer_by_id), the insertion another.  *)
(***************************************************************************)
MaxCreateCalls == 3

\* The threads that call create_timer.
CreateThreads == WorkerIds

\* What create_timer leaves alone.
createrest == <<workers, qvars, evt_id, w_idx, ret_pc, id_p, ncalls, nsent,
                hvars, fsmvars, svc, nexp, h_call, h_quiet, h_svc, nhandled,
                w_p, h_seen, dvars, h_self>>

\* create_timer(timerid, evtid) is called: timer_p = malloc(...).
create_timer_call(t) ==
    /\ pc[t] = "idle"
    /\ proc = "running"
    /\ ntcalls < MaxCreateCalls
    /\ ntcalls' = ntcalls + 1
    /\ \E id \in TimerIds :
          arm' = [arm EXCEPT ![t] = [op |-> "create", timerid |-> id,
                                     tick_ms |-> 0, timer_p |-> NoTimerP]]
    /\ pc' = [pc EXCEPT ![t] = "create_find"]
    /\ UNCHANGED <<createrest, t_mutex, t_list, timers, proc>>

\* find_timer_by_id(timerid): pthread_mutex_lock and the walk of the list.
create_timer_find(t) ==
    /\ pc[t] = "create_find"
    /\ proc = "running"
    /\ t_mutex = NoThread
    /\ t_mutex' = t
    /\ arm' = [arm EXCEPT ![t].timer_p =
                  IF \E i \in DOMAIN t_list : t_list[i] = arm[t].timerid
                     THEN arm[t].timerid ELSE NoTimerP]
    /\ pc' = [pc EXCEPT ![t] = "create_found"]
    /\ UNCHANGED <<createrest, ntcalls, t_list, timers, proc>>

\* pthread_mutex_unlock, return(found_p); if (NULL != ...) die("timer
\* exists"); timerfd_create; the fields timerid, evtid and tick_ms.
create_timer_test(t) ==
    /\ pc[t] = "create_found"
    /\ proc = "running"
    /\ t_mutex = t
    /\ t_mutex' = NoThread
    /\ IF arm[t].timer_p # NoTimerP
          THEN /\ proc' = "aborted"
               /\ pc' = pc
          ELSE /\ proc' = proc
               /\ pc' = [pc EXCEPT ![t] = "create_lock"]
    /\ UNCHANGED <<createrest, ntcalls, arm, t_list, timers>>

\* pthread_mutex_lock(&timer_list.mutex)
create_timer_lock(t) ==
    /\ pc[t] = "create_lock"
    /\ proc = "running"
    /\ t_mutex = NoThread
    /\ t_mutex' = t
    /\ pc' = [pc EXCEPT ![t] = "create_add"]
    /\ UNCHANGED <<createrest, ntcalls, arm, t_list, timers, proc>>

\* nl_list_add_tail(&timer_p->list, &timer_list.head.list); epoll_ctl(
\* fd_epoll, EPOLL_CTL_ADD, ...)
create_timer_add(t) ==
    /\ pc[t] = "create_add"
    /\ proc = "running"
    /\ t_mutex = t
    /\ t_list' = Append(t_list, arm[t].timerid)
    /\ \E old \in MallocValues :
          timers' = create_timer(timers, arm[t].timerid,
                                 TimerEvt(arm[t].timerid), old)
    /\ pc' = [pc EXCEPT ![t] = "create_unlock"]
    /\ UNCHANGED <<createrest, ntcalls, arm, t_mutex, proc>>

\* pthread_mutex_unlock(&timer_list.mutex); return(0)
create_timer_unlock(t) ==
    /\ pc[t] = "create_unlock"
    /\ proc = "running"
    /\ t_mutex = t
    /\ t_mutex' = NoThread
    /\ pc' = [pc EXCEPT ![t] = "idle"]
    /\ UNCHANGED <<createrest, ntcalls, arm, t_list, timers, proc>>

\* The service thread has initialised the list; no timer was created.
InitReg == InitAt([t \in Threads |-> "idle"])

NextReg ==
    \/ \E t \in CreateThreads : create_timer_call(t)
    \/ \E t \in CreateThreads : create_timer_find(t)
    \/ \E t \in CreateThreads : create_timer_test(t)
    \/ \E t \in CreateThreads : create_timer_lock(t)
    \/ \E t \in CreateThreads : create_timer_add(t)
    \/ \E t \in CreateThreads : create_timer_unlock(t)

SpecReg == InitReg /\ [][NextReg]_vars

\* C32: timer ids are unique in the registry: no two fsmtimer_t linked in
\* timer_list have the same timerid, whatever the interleaving of the calls
\* of create_timer.
C32_TimerIdsUnique ==
    \A i, j \in DOMAIN t_list : i # j => t_list[i] # t_list[j]

\* C32 witness: two threads called create_timer with the same id one after
\* the other; the first added the timer and the second found it and died.
C32_Witness ==
    /\ proc = "aborted"
    /\ t_list = <<TID_LIGHT>>
    /\ \A t \in CreateThreads : arm[t].op = "create" /\ arm[t].timerid = TID_LIGHT
    /\ pc["stoplight"] = "idle"
    /\ pc["crosswalk"] = "create_found"

(***************************************************************************)
(* The lights in time.  The periods of the timers are counted: the kernel  *)
(* timer that has the least time left expires first.  The threads are fast *)
(* against the periods: time passes only while every thread waits.         *)
(***************************************************************************)

\* Bounds: the expiries in one run, and the commands of the command line.
MaxWalkExpire == 3
MaxInject == 1

\* The timers that are armed.
ArmedTimers == {id \in TimerIds : timers[id].exists /\ timers[id].value # Disarmed}

\* The least time left of the armed timers.
NextExpiry ==
    CHOOSE d \in {msec(timers[id].value) : id \in ArmedTimers} :
        \A id \in ArmedTimers : d <= msec(timers[id].value)

\* Every thread waits: the workers in evtq_pop on empty queues, the timer
\* service in epoll_wait with no descriptor readable, the command line for
\* input.
Quiet ==
    /\ pc["main"] = "idle"
    /\ pc[SvcThread] = "svc_poll"
    /\ \A id \in TimerIds : timers[id].expirations = 0
    /\ \A w \in WorkerIds : Starving(w)

\* The commands 'g' and 'b' of the command line: workers_evt_broadcast of
\* E_INIT and of E_BUTTON.  A command is typed while the threads wait.
walk_inject(t) ==
    /\ Quiet
    /\ proc = "running"
    /\ ncalls < MaxInject
    /\ ncalls' = ncalls + 1
    /\ \E e \in {E_INIT, E_BUTTON} : workers_evt_broadcast(t, e, "idle")
    /\ UNCHANGED <<tvars, workers, qvars, id_p, appended, dequeued, fvars>>

\* The kernel: time passes up to the next expiry.  The timer that is due
\* expires and starts its interval anew (it_interval), the others have that
\* much less left.
clock_advance ==
    /\ proc = "running"
    /\ Quiet
    /\ ArmedTimers # {}
    /\ nexp < MaxWalkExpire
    /\ nexp' = nexp + 1
    /\ timers' = [id \in TimerIds |->
                    IF id \notin ArmedTimers THEN timers[id]
                    ELSE IF msec(timers[id].value) = NextExpiry
                            THEN [timers[id] EXCEPT !.expirations = @ + 1,
                                                    !.value = timers[id].interval]
                            ELSE [timers[id] EXCEPT
                                    !.value = timespec(msec(@) - NextExpiry)]]
    /\ UNCHANGED <<lvars, workers, qvars, pc, evt_id, w_idx, ret_pc, id_p,
                   ncalls, nsent, hvars, fsmvars, proc, svc, ntcalls, h_call,
                   h_quiet, h_svc>>

\* The lights run: the stoplight has entered S:YELLOW and set the light
\* timer to t_fast, the crosswalk is in S:DONT_WALK; the blink timer was
\* never set (first round) or runs on from the round before, in which
\* walk_enter had set it t_norm before the stoplight left S:RED.
InitWalk ==
    \E left \in {0, 3 * t_blink - 2 * t_norm} :
        InitState([t \in Threads |->
                      IF t = SvcThread THEN "svc_poll" ELSE "idle"],
                  [w \in WorkerIds |-> FsmAt(w, IF w = "stoplight"
                                                   THEN "s_yellow"
                                                   ELSE "s_nowalk")],
                  LET tm0 == create_timer(
                                 create_timer([id \in TimerIds |-> NoTimer],
                                              TID_LIGHT, E_LIGHT, 0),
                                 TID_BLINK, E_BLINK, 0)
                      tm1 == set_timer_p(set_timer_p(tm0, TID_LIGHT, t_norm),
                                         TID_LIGHT, t_fast)
                  IN IF left = 0 THEN tm1
                     ELSE [set_timer_p(tm1, TID_BLINK, t_blink)
                              EXCEPT ![TID_BLINK].value = timespec(left)])

NextWalk ==
    \/ walk_inject("main")
    \/ clock_advance
    \/ \E t \in Threads : Push(t)
    \/ \E w \in WorkerIds : task_pop(w)
    \/ \E w \in WorkerIds : Pop(w)
    \/ \E w \in WorkerIds : task_fsm_run(w)
    \/ \E w \in WorkerIds : fsm_run_next_state(w)
    \/ \E w \in WorkerIds : fsm_run_guard(w)
    \/ \E w \in WorkerIds : fsm_run_exit(w)
    \/ \E w \in WorkerIds : fsm_run_assign(w)
    \/ \E w \in WorkerIds : fsm_run_entry(w)
    \/ \E w \in WorkerIds : act_set_timer(w)
    \/ \E w \in WorkerIds : fsm_run_passed(w)
    \/ \E w \in WorkerIds : fsm_run_return(w)
    \/ svc_poll
    \/ svc_lookup
    \/ svc_read
    \/ svc_bcast
    \/ svc_next

SpecWalk == InitWalk /\ [][NextWalk]_vars

(***************************************************************************)
(* Properties of the lights in time.                                       *)
(***************************************************************************)

\* The crosswalk shows walk.
WalkShown == CurrentState("crosswalk") \in {"s_walk", "s_blink"}

\* The E_GREEN of the stoplight's entry of S:GREEN is under way to the
\* crosswalk: the stoplight is still in the call of fsm_run that entered
\* S:GREEN, or E_GREEN is in the queue of the crosswalk, or the crosswalk
\* has taken E_GREEN from its queue and its call of fsm_run for it has not
\* returned.
GreenUnderWay ==
    \/ pc["stoplight"] \in {"run_entry", "push_lock", "push_append",
                            "push_signal", "push_unlock", "act_set_timer",
                            "run_passed", "run_ret"}
    \/ \E i \in DOMAIN q_list["crosswalk"] :
          q_list["crosswalk"][i].event_id = E_GREEN
    \/ /\ pc["crosswalk"] \in {"pop_remove", "pop_unlock"}
       /\ dequeued["crosswalk"] # <<>>
       /\ dequeued["crosswalk"][Len(dequeued["crosswalk"])].event_id = E_GREEN
    \/ /\ Len(dequeued["crosswalk"]) > nhandled["crosswalk"]
       /\ id_p["crosswalk"] = E_GREEN
    \/ /\ run_evt["crosswalk"] = E_GREEN
       /\ pc["crosswalk"] \in {"run_next", "run_guard", "run_exit",
                               "run_assign", "run_ret"}

\* C33: the crosswalk shows walk only while traffic is stopped: whenever
\* the crosswalk is in S:WALK or S:BLINKING WALK, the stoplight is in S:RED,
\* or it has left S:RED for S:GREEN and its E_GREEN is still under way to
\* the crosswalk.
C33_WalkOnlyOnRed ==
    (proc = "running" /\ WalkShown) =>
        \/ CurrentState("stoplight") = "s_red"
        \/ CurrentState("stoplight") = "s_green" /\ GreenUnderWay

\* C33 witness: one round without a command: the stoplight went from
\* S:YELLOW to S:RED and on to S:GREEN, the blink timer expired before the
\* light timer, and the crosswalk in S:BLINKING WALK has taken E_GREEN from
\* its queue.
C33_Witness ==
    /\ ncalls = 0
    /\ nexp = MaxWalkExpire
    /\ CurrentState("stoplight") = "s_green"
    /\ CurrentState("crosswalk") = "s_blink"
    /\ run_evt["crosswalk"] = E_GREEN
    /\ pc["crosswalk"] = "run_assign"

(***************************************************************************)
(* The timer service while a worker arms a timer: both timers run, a      *)
(* worker calls set_timer or toggle_timer, the service thread delivers.   *)
(***************************************************************************)
MaxStallCalls == 1
MaxStallExpire == 2

\* The worker that calls the timer API from its actions.
StallThread == "stoplight"

\* set_timer(id, P) from an action of the worker; P = 0 stops the timer.
stall_set_timer ==
    /\ ntcalls < MaxStallCalls
    /\ call_set_timer(StallThread)

\* toggle_timer(id) (command 't' of the command line).
stall_toggle_timer ==
    /\ ntcalls < MaxStallCalls
    /\ call_toggle_timer(StallThread)

\* An armed timer expires.
stall_timer_expire(id) ==
    /\ nexp < MaxStallExpire
    /\ timer_expire(id)

\* Both timers exist and run: the light timer with t_norm (green_enter), the
\* blink timer with t_blink (walk_enter); the service thread polls.
InitStall ==
    InitState([t \in Threads |-> IF t = SvcThread THEN "svc_poll" ELSE "idle"],
              [w \in WorkerIds |-> FsmOf(w)],
              set_timer_p(
                  set_timer_p(
                      create_timer(
                          create_timer([id \in TimerIds |-> NoTimer],
                                       TID_LIGHT, E_LIGHT, 0),
                          TID_BLINK, E_BLINK, 0),
                      TID_LIGHT, t_norm),
                  TID_BLINK, t_blink))

NextStall ==
    \/ stall_set_timer
    \/ stall_toggle_timer
    \/ \E id \in TimerIds : stall_timer_expire(id)
    \/ svc_poll
    \/ svc_lookup
    \/ svc_read
    \/ svc_bcast
    \/ Push(SvcThread)
    \/ svc_next

SpecStall == InitStall /\ [][NextStall]_vars

\* The service thread is in read() on the descriptor of timer id, the
\* counter of expirations is 0 and the timer is disarmed: the read returns
\* only when some thread arms the timer again and it expires.
StalledOn(id) ==
    /\ pc[SvcThread] = "svc_read"
    /\ svc.events[svc.i] = id
    /\ timers[id].expirations = 0
    /\ timers[id].value = Disarmed

\* C34: the timer service never blocks while it delivers an expiry: it is
\* never in read() on a timer that was stopped after the poll reported it,
\* so that an expiry of another timer waits to be broadcast.
C34_ServiceNeverStalls ==
    \A a, b \in TimerIds :
        (a # b /\ timers[b].expirations > 0) => ~StalledOn(a)

\* C34 witness: the worker set the light timer to another period after the
\* poll had reported it and before the read; the light timer expired again,
\* the read returned and the service broadcast E_LIGHT once.
C34_Witness ==
    /\ LastCall.op = "set"
    /\ LastCall.id = TID_LIGHT
    /\ LastCall.arg # 0
    /\ LastCall.before[TID_LIGHT].expirations > 0
    /\ h_svc.reports = 1
    /\ h_svc.reads = << <<TID_LIGHT, 1>> >>
    /\ nexp = MaxStallExpire
    /\ pc[SvcThread] = "svc_next"

(***************************************************************************)
(* The start of the timer service against the start of the workers: the   *)
(* service thread initialises timer_list and fd_epoll itself, the workers *)
(* run fsm_init when their threads begin.                                 *)
(***************************************************************************)

\* The positions of the service thread before its loop.
SvcInitLabels == {"svc_init_mutex", "svc_init_list", "svc_init_epoll"}

\* What the start of the service leaves alone.
svcrest == <<lvars, workers, qvars, evt_id, w_idx, ret_pc, id_p, ncalls,
             nsent, hvars, fsmvars, timers, proc, svc, ntcalls, nexp, h_call,
             h_quiet, h_svc>>

\* pthread_mutex_init(&timer_list.mutex, NULL)
svc_init_mutex ==
    /\ pc[SvcThread] = "svc_init_mutex"
    /\ proc = "running"
    /\ pc' = [pc EXCEPT ![SvcThread] = "svc_init_list"]
    /\ UNCHANGED svcrest

\* NL_INIT_LIST_HEAD(&timer_list.head.list)
svc_init_list ==
    /\ pc[SvcThread] = "svc_init_list"
    /\ proc = "running"
    /\ pc' = [pc EXCEPT ![SvcThread] = "svc_init_epoll"]
    /\ UNCHANGED svcrest

\* fd_epoll = epoll_create1(0); pthread_setcancelstate(...)
svc_init_epoll ==
    /\ pc[SvcThread] = "svc_init_epoll"
    /\ proc = "running"
    /\ pc' = [pc EXCEPT ![SvcThread] = "svc_poll"]
    /\ UNCHANGED svcrest

\* The thread of worker w begins: fsm_init(fsm_p).  stoplight_init_enter
\* calls create_timer.  While timer_list.head.list is not initialised its
\* next pointer is null (static storage) and the walk of find_timer_by_id
\* reads through it; while fd_epoll is not created it is 0 and epoll_ctl
\* fails, after the first timer was linked: die("epoll_ctl for new timer").
start_fsm_init(w) ==
    IF /\ State(CurrentState(w)).entry_action = "stoplight_init_enter"
       /\ pc[SvcThread] \in SvcInitLabels
       THEN /\ pc[w] = "start"
            /\ proc = "running"
            /\ h_log' = [h_log EXCEPT ![w] = << <<"entry", CurrentState(w)>> >>]
            /\ IF pc[SvcThread] = "svc_init_epoll"
                  THEN /\ proc' = "aborted"
                       /\ pc' = [pc EXCEPT ![w] = "create_add"]
                       /\ \E old \in MallocValues :
                             timers' = create_timer(timers, TID_LIGHT,
                                                    E_LIGHT, old)
                  ELSE /\ proc' = "fault"
                       /\ pc' = [pc EXCEPT ![w] = "create_find"]
                       /\ timers' = timers
            /\ UNCHANGED <<tvars, workers, qvars, evt_id, w_idx, ret_pc, id_p,
                           ncalls, nsent, hvars, fsm, nextst_p, ret, nruns,
                           run_evt, h_from, h_row, h_guard>>
       ELSE fsm_init(w)

\* The threads were spawned: the service thread and the workers begin.
InitStart ==
    InitAt([t \in Threads |-> CASE t \in WorkerIds -> "start"
                                [] t = SvcThread -> "svc_init_mutex"
                                [] OTHER -> "idle"])

NextStart ==
    \/ svc_init_mutex
    \/ svc_init_list
    \/ svc_init_epoll
    \/ \E w \in WorkerIds : start_fsm_init(w)
    \/ call_broadcast_init("main")
    \/ \E t \in Threads : Push(t)
    \/ \E w \in WorkerIds : task_pop(w)
    \/ \E w \in WorkerIds : Pop(w)
    \/ \E w \in WorkerIds : task_fsm_run(w)
    \/ \E w \in WorkerIds : fsm_run_next_state(w)
    \/ \E w \in WorkerIds : fsm_run_guard(w)
    \/ \E w \in WorkerIds : fsm_run_exit(w)
    \/ \E w \in WorkerIds : fsm_run_assign(w)
    \/ \E w \in WorkerIds : fsm_run_entry(w)
    \/ \E w \in WorkerIds : act_set_timer(w)
    \/ \E w \in WorkerIds : fsm_run_passed(w)
    \/ \E w \in WorkerIds : fsm_run_return(w)

SpecStart == InitStart /\ [][NextStart]_vars

\* C35: no timer operation runs on a timer service that is not initialised:
\* when the stoplight's thread has called create_timer from its initial
\* entry action, the service thread has initialised the mutex, the list and
\* the poll handle.
C35_ServiceInitialisedFirst ==
    pc["stoplight"] # "start" => pc[SvcThread] \notin SvcInitLabels

\* C35 witness: the service thread reached its loop before the stoplight's
\* thread began; both timers were created, the stoplight has entered S:GREEN
\* and set the light timer.
C35_Witness ==
    /\ proc = "running"
    /\ pc[SvcThread] = "svc_poll"
    /\ \A id \in TimerIds : timers[id].exists
    /\ CurrentState("stoplight") = "s_green"
    /\ ArmedWith(timers[TID_LIGHT], t_norm)

(***************************************************************************)
(* The program from its start, in time: the workers run fsm_init and      *)
(* their task, the command line gives E_INIT, E_BUTTON and E_DONE, the    *)
(* timers expire in the order of their periods.                           *)
(***************************************************************************)
MaxProgExpire == 2
MaxProgInject == 1

\* The commands 'g', 'b' and 'x' of the command line.  A command is typed
\* while the threads wait, or before the workers have begun, each of the
\* three at most once, and none after 'x', which ends the command loop.
prog_inject(t) ==
    /\ pc[t] = "idle"
    /\ Quiet \/ \A w \in WorkerIds : pc[w] = "start"
    /\ proc = "running"
    /\ ncalls < MaxProgInject
    /\ ncalls' = ncalls + 1
    /\ \E e \in {E_INIT, E_BUTTON, E_DONE} :
          /\ \A n \in issued : n.tag[1] = t => n.event_id \notin {e, E_DONE}
          /\ workers_evt_broadcast(t, e, "idle")
    /\ UNCHANGED <<tvars, workers, qvars, id_p, appended, dequeued, fvars>>

\* Time passes up to the next expiry.
prog_clock_advance ==
    /\ nexp < MaxProgExpire
    /\ clock_advance

NextProg ==
    \/ prog_inject("main")
    \/ prog_clock_advance
    \/ \E w \in WorkerIds : call_fsm_init(w)
    \/ \E t \in Threads : Push(t)
    \/ \E w \in WorkerIds : task_pop(w)
    \/ \E w \in WorkerIds : Pop(w)
    \/ \E w \in WorkerIds : task_fsm_run(w)
    \/ \E w \in WorkerIds : fsm_run_next_state(w)
    \/ \E w \in WorkerIds : fsm_run_guard(w)
    \/ \E w \in WorkerIds : fsm_run_exit(w)
    \/ \E w \in WorkerIds : fsm_run_assign(w)
    \/ \E w \in WorkerIds : fsm_run_entry(w)
    \/ \E w \in WorkerIds : act_set_timer(w)
    \/ \E w \in WorkerIds : fsm_run_passed(w)
    \/ \E w \in WorkerIds : fsm_run_return(w)
    \/ svc_poll
    \/ svc_lookup
    \/ svc_read
    \/ svc_bcast
    \/ svc_next

SpecProg == InitBoot /\ [][NextProg]_vars

worker_find_id(id) ==
    IF \E i \in 1..Len(workers) : workers[i] = id THEN id ELSE NULL

\* worker_self: worker_find_id(pthread_self()).
worker_self(w) == worker_find_id(w)

\* worker_get_name, called by ACT_TRACE of the entry action that fsm_init
\* runs when the thread has begun: h_self records what worker_self returned.
worker_get_name(w) ==
    /\ pc[w] = "start"
    /\ proc = "running"
    /\ h_self[w] = "none"
    /\ h_self' = [h_self EXCEPT
                    ![w] = IF worker_self(w) = NULL THEN "not found" ELSE "found"]
    /\ UNCHANGED <<t_list, dvars, t_mutex, arm, nhandled, w_p, h_seen, workers,
                   qvars, pc, evt_id, w_idx, ret_pc, id_p, ncalls, nsent,
                   hvars, fvars, svc, ntcalls, nexp, h_call, h_quiet, h_svc>>

\* The main thread creates the workers and broadcasts E_INIT; each thread
\* begins, traces its entry action, runs fsm_init and takes its first event.
NextSelf ==
    \/ create_broadcast_init("main")
    \/ Push("main")
    \/ \E w \in WorkerIds : worker_fsm_create_malloc(w)
    \/ \E w \in WorkerIds : worker_fsm_create_store(w)
    \/ \E w \in WorkerIds : worker_fsm_create_evtq(w)
    \/ \E w \in WorkerIds : worker_fsm_create_spawn(w)
    \/ \E w \in WorkerIds : worker_list_add(w)
    \/ \E w \in WorkerIds : task_begin(w)
    \/ \E w \in WorkerIds : worker_get_name(w)
    \/ \E w \in WorkerIds : call_fsm_init(w)
    \/ \E w \in WorkerIds : task_pop(w)
    \/ \E w \in WorkerIds : Pop(w)

SpecSelf == InitCreate /\ [][NextSelf]_vars

\* C37: worker_self() called from a worker thread never returns "not found":
\* whenever a worker thread has looked itself up, it found its entry.
C37_SelfAlwaysFound ==
    \A w \in WorkerIds : h_self[w] # "not found"

\* C37 witness: the stoplight's thread looked itself up after the main
\* thread had added it to the registry, and found its entry.
C37_Witness ==
    /\ h_self["stoplight"] = "found"
    /\ w_p["stoplight"].stage = "listed"
    /\ pc["stoplight"] = "start"

\* C38: a timer that was created and never set is disarmed, and a toggle of
\* it leaves it disarmed (the saved period it restores is 0): after
\* create_timer(id) of a new timer the kernel timer is disarmed, and after a
\* toggle_timer(id) that follows this create_timer(id) directly it is
\* disarmed still, with period 0.
C38_NeverSetStaysDisarmed ==
    \A id \in TimerIds :
        /\ (/\ LastCall.op = "create" /\ LastCall.id = id
            /\ ~LastCall.before[id].exists)
              => (timers[id].tick_ms = 0 /\ ArmedWith(timers[id], 0))
        /\ (/\ LastCall.op = "toggle" /\ LastCall.id = id
            /\ PrevCall.op = "create" /\ PrevCall.id = id
            /\ ~PrevCall.before[id].exists)
              => (timers[id].tick_ms = 0 /\ ArmedWith(timers[id], 0))

\* C38 witness: TID_LIGHT was created in memory that held 0 where its
\* old_tick_ms lies and then toggled: it is disarmed.
C38_Witness ==
    /\ LastCall.op = "toggle" /\ LastCall.id = TID_LIGHT
    /\ PrevCall.op = "create" /\ PrevCall.id = TID_LIGHT
    /\ ~PrevCall.before[TID_LIGHT].exists
    /\ LastCall.before[TID_LIGHT].old_tick_ms = 0
    /\ timers[TID_LIGHT].tick_ms = 0
    /\ ArmedWith(timers[TID_LIGHT], 0)

(***************************************************************************)
(* evtq_len (evtq.c), called by a worker on its own queue when it cannot   *)
(* block in evtq_pop.                                                      *)
(***************************************************************************)
call_evtq_len(w) ==
    /\ pc[w] = "idle"
    /\ proc = "running"
    /\ pc' = [pc EXCEPT ![w] = "len_lock"]
    /\ UNCHANGED <<tvars, workers, qvars, evt_id, w_idx, ret_pc, id_p, ncalls,
                   nsent, hvars, fvars>>

\* pthread_mutex_lock(&evtq_p->mutex)
evtq_len_lock(w) ==
    /\ pc[w] = "len_lock"
    /\ proc = "running"
    /\ q_mutex[w] = NoThread
    /\ q_mutex' = [q_mutex EXCEPT ![w] = w]
    /\ pc' = [pc EXCEPT ![w] = "len_read"]
    /\ UNCHANGED <<tvars, workers, q_list, q_len, q_cond, evt_id, w_idx, ret_pc,
                   id_p, ncalls, nsent, hvars, fvars>>

\* len = evtq_p->len
evtq_len_read(w) ==
    /\ pc[w] = "len_read"
    /\ proc = "running"
    /\ pc' = [pc EXCEPT ![w] = "len_unlock"]
    /\ UNCHANGED <<tvars, workers, qvars, evt_id, w_idx, ret_pc, id_p, ncalls,
                   nsent, hvars, fvars>>

\* pthread_mutex_unlock(&evtq_p->mutex); return(len)
evtq_len_unlock(w) ==
    /\ pc[w] = "len_unlock"
    /\ proc = "running"
    /\ q_mutex' = [q_mutex EXCEPT ![w] = NoThread]
    /\ pc' = [pc EXCEPT ![w] = "idle"]
    /\ UNCHANGED <<tvars, workers, q_list, q_len, q_cond, evt_id, w_idx, ret_pc,
                   id_p, ncalls, nsent, hvars, fvars>>

\* The threads enqueue, the workers dequeue and ask for the length.
NextLen ==
    \/ \E t \in Threads : call_broadcast(t)
    \/ \E t \in Threads : Push(t)
    \/ \E w \in WorkerIds : call_pop(w)
    \/ \E w \in WorkerIds : Pop(w)
    \/ \E w \in WorkerIds : spurious_wakeup(w)
    \/ \E w \in WorkerIds : call_evtq_len(w)
    \/ \E w \in WorkerIds : evtq_len_lock(w)
    \/ \E w \in WorkerIds : evtq_len_read(w)
    \/ \E w \in WorkerIds : evtq_len_unlock(w)

SpecLen == Init /\ [][NextLen]_vars

\* The positions of a thread inside evtq_len.
InEvtqLen(w) == pc[w] \in {"len_lock", "len_read", "len_unlock"}

\* C39: whenever the mutex of a queue is free, len is the number of events
\* linked in the queue and is not negative; a step that links an event
\* counts len up by one, a step that unlinks one counts it down by one, and
\* the steps of evtq_len change neither len nor the list.
C39_LenCountsEvents ==
    /\ [](\A q \in WorkerIds :
            q_mutex[q] = NoThread
               => (q_len[q] = Len(q_list[q]) /\ q_len[q] >= 0))
    /\ [][\A q \in WorkerIds :
            /\ appended'[q] # appended[q] => q_len'[q] = q_len[q] + 1
            /\ dequeued'[q] # dequeued[q] => q_len'[q] = q_len[q] - 1
            /\ (InEvtqLen(q) /\ pc'[q] # pc[q])
                  => (q_len' = q_len /\ q_list' = q_list)]_vars

\* C39 witness: the crosswalk has taken one of the two events enqueued for
\* it and its queue, whose mutex is free, holds len = 1 event, while the
\* stoplight reads the length of its own queue in evtq_len.
C39_Witness ==
    /\ q_mutex["crosswalk"] = NoThread
    /\ Len(appended["crosswalk"]) = 2
    /\ Len(dequeued["crosswalk"]) = 1
    /\ q_len["crosswalk"] = 1
    /\ Len(q_list["crosswalk"]) = 1
    /\ pc["stoplight"] = "len_read"
    /\ q_len["stoplight"] = 2

====
